---------------------------- MODULE Spec2Model ----------------------------
(***************************************************************************)
(* Ledger Aggregation Engine of Imperio-Sucata-ERP (src/functions/index.js). *)
(*                                                                         *)
(* The model covers the Firestore documents the engine maintains           *)
(* (transactions/{id}, inventory/current, reports/live_summary,            *)
(* daily_reports/{date}, notifications/{id}), the change events of the     *)
(* transactions collection, the in-flight invocations of                   *)
(* updateInventoryAndStatsOnChange, the counter reset jobs, the rollup     *)
(* finalizer generateHistoricalDailyReport, backfillHistory,               *)
(* generateMonthReport, cleanupOldReports, checkLowStock, the              *)
(* process-local memoryCache, getLiveSummary and getAggregatedReports.     *)
(***************************************************************************)
EXTENDS Integers, Sequences, FiniteSets, TLC

(***************************************************************************)
(* Bounds of the model.                                                    *)
(***************************************************************************)
\* ledger documents transactions/1 .. transactions/NumIds
NumIds == 2
\* ledger writes (create, update, delete) issued in one behaviour
MaxWrites == 2
\* invocations of the change handler in flight at once
MaxHandlers == 2
\* times one event may be delivered again after a successful handling
MaxRedeliveries == 1
\* calendar days 1 .. MaxDay
MaxDay == 2
\* clock ticks of CACHE_TTL / 2 milliseconds
MaxTicks == 2
\* getCachedData calls in flight at once
MaxCalls == 1
\* documents per page of a scan of the transactions collection (BATCH_SIZE is
\* 500 in the program; scaled so that a scan of the modelled ledger reads
\* entries from more than one page)
BATCH_SIZE == 1
\* writes per batch of Phase 2 of backfillHistory (WRITE_BATCH_SIZE is 400 in
\* the program; scaled so that the days of the model fill more than one
\* batch)
WRITE_BATCH_SIZE == 1
\* days per calendar month
DaysPerMonth == 2
\* runs of the rollup finalizer and of backfillHistory in one behaviour
MaxRuns == 2
\* invocations of checkLowStock in flight at once, where the configuration
\* of the function does not serialise them
MaxMonitors == 2
\* age in days beyond which cleanupOldReports deletes a daily report (90 in
\* the program; scaled so that a report of the model's days grows old enough)
CLEANUP_AGE_DAYS == 1

(***************************************************************************)
(* Program constants.                                                      *)
(***************************************************************************)
CACHE_TTL == 60000

TickMs == CACHE_TTL \div 2

(***************************************************************************)
(* Ledger entries: the fields of a transactions/{id} document that the     *)
(* handler destructures, and the entry's own date `data`.                  *)
(***************************************************************************)
Ids == 1..NumIds

Days == 1..MaxDay

Tipos == {"compra", "venda", "despesa"}

Materials == {"ferro", "cobre"}

Quantidades == {3, 10}

\* precoUnitario; the ledger writer stores valorTotal = quantidade * preco
Precos == {8}

Entries ==
  {[exists |-> TRUE, tipo |-> t, material |-> m, quantidade |-> q,
    valorTotal |-> q * p, data |-> d] :
     t \in Tipos, m \in Materials, q \in Quantidades, p \in Precos,
     d \in Days}

\* entries with a payment method: 3 units of ferro paid by "PIX", and 10
\* units of cobre that carry no formaPagamento
PaidEntries ==
  {e @@ [formaPagamento |-> "PIX"] :
     e \in {x \in Entries : x.material = "ferro" /\ x.quantidade = 3}}
  \cup {x \in Entries : x.material = "cobre" /\ x.quantidade = 10}

\* a snapshot with exists = false (event.data.before / event.data.after)
NoDoc == [exists |-> FALSE]

VARIABLES
  transactions,  \* collection transactions: id -> entry or NoDoc
  nextSeq,       \* number of ledger writes issued so far
  pending,       \* change events not yet dispatched, in order of issue
  handlers,      \* in-flight invocations of updateInventoryAndStatsOnChange
  inventory,     \* document inventory/current: material -> quantidade
  liveSummary,   \* document reports/live_summary: field -> number
  memoryCache,   \* the Map memoryCache: key -> [data, timestamp]
  calls,         \* in-flight getCachedData calls that missed the cache
  response,      \* what the last completed getLiveSummary call returned
  now,           \* Date.now() / the server timestamp, in milliseconds
  today,         \* the current calendar day
  issuedInv,     \* history: sum of the handler's inventory increments over
                 \* all events issued
  issuedStats,   \* history: the same for the live summary counters
  reflectedInv,  \* history: events whose increments inventory/current holds
  reflectedStats,\* history: events whose increments live_summary holds
  dailyReports,  \* collection daily_reports: day -> document (path -> value)
  errorLog,      \* number of logger.error calls of the change handler
  jobResult,     \* what the last completed job did and returned
  notifications, \* collection notifications: the documents, in order of
                 \* creation
  monitors       \* in-flight invocations of checkLowStock

vars ==
  <<transactions, nextSeq, pending, handlers, inventory, liveSummary,
    memoryCache, calls, response, now, today,
    issuedInv, issuedStats, reflectedInv, reflectedStats,
    dailyReports, errorLog, jobResult, notifications, monitors>>

ledgerVars == <<transactions, nextSeq, pending, issuedInv, issuedStats>>

storeVars == <<inventory, liveSummary, reflectedInv, reflectedStats>>

cacheVars == <<memoryCache, calls, response>>

clockVars == <<now, today>>

notifyVars == <<notifications, monitors>>

reportVars == <<dailyReports, errorLog, jobResult, notifyVars>>


(***************************************************************************)
(* Firestore write semantics.                                              *)
(***************************************************************************)
\* a JavaScript object literal with no own keys
EmptyObject == <<>>

\* obj[key] = value for every key of `later`: a later assignment to a key
\* the object already has replaces the earlier value
Assign(obj, later) == later @@ obj

\* a field of a document, 0 when the field is missing
Field(doc, k) == IF k \in DOMAIN doc THEN doc[k] ELSE 0

\* a mutant of FieldValueIncrement: the operand is written as a plain value
FieldValuePlain(cur, n) == n

\* admin.firestore.FieldValue.increment(n) applied to a stored number
FieldValueIncrement(cur, n) == cur + n

\* ref.set({...plain, ...increments}, { merge: true }): the plain fields are
\* written, the increment fields are added to, all other fields are kept
SetMerge(doc, plain, incs) ==
  [k \in DOMAIN doc \cup DOMAIN plain \cup DOMAIN incs |->
     IF k \in DOMAIN incs THEN FieldValueIncrement(Field(doc, k), incs[k])
     ELSE IF k \in DOMAIN plain THEN plain[k]
     ELSE doc[k]]

(***************************************************************************)
(* updateInventoryAndStatsOnChange: the updates built inside the            *)
(* transaction callback from beforeData and afterData.                     *)
(***************************************************************************)
\* a mutant of ReversalInvIncrement: a deleted sale is subtracted again
ReversalInvIncrementSameSign(beforeData) ==
  IF beforeData.tipo = "compra"
    THEN -beforeData.quantidade ELSE -beforeData.quantidade

\* invIncrement of the reversal block
ReversalInvIncrement(beforeData) ==
  IF beforeData.tipo = "compra"
    THEN -beforeData.quantidade ELSE beforeData.quantidade

\* invIncrement of the application block
ForwardInvIncrement(afterData) ==
  IF afterData.tipo = "compra"
    THEN afterData.quantidade ELSE -afterData.quantidade

\* a mutant of ReversalStats: the reversal block leaves the totals and
\* counts of the entry's kind as they are
ReversalStatsCountOnly(beforeData) ==
  [transacoesHoje |-> -1, totalTransacoesMes |-> -1]

\* the keys the reversal block assigns in statsUpdate
ReversalStats(beforeData) ==
  [transacoesHoje |-> -1, totalTransacoesMes |-> -1] @@
  CASE beforeData.tipo = "venda" ->
         [totalVendasMes |-> -beforeData.valorTotal,
          vendasHoje |-> -beforeData.valorTotal,
          vendasCountMes |-> -1]
    [] beforeData.tipo = "compra" ->
         [totalComprasMes |-> -beforeData.valorTotal,
          comprasHoje |-> -beforeData.valorTotal,
          comprasCountMes |-> -1]
    [] beforeData.tipo = "despesa" ->
         [totalDespesasMes |-> -beforeData.valorTotal,
          despesasCountMes |-> -1]

\* the keys the application block assigns in statsUpdate
ForwardStats(afterData) ==
  [transacoesHoje |-> 1, totalTransacoesMes |-> 1] @@
  CASE afterData.tipo = "venda" ->
         [totalVendasMes |-> afterData.valorTotal,
          vendasHoje |-> afterData.valorTotal,
          vendasCountMes |-> 1]
    [] afterData.tipo = "compra" ->
         [totalComprasMes |-> afterData.valorTotal,
          comprasHoje |-> afterData.valorTotal,
          comprasCountMes |-> 1]
    [] afterData.tipo = "despesa" ->
         [totalDespesasMes |-> afterData.valorTotal,
          despesasCountMes |-> 1]

\* invUpdate when the callback reaches transaction.set: the reversal block
\* assigns invUpdate[material], then the application block assigns
\* invUpdate[material]
invUpdate(beforeData, afterData) ==
  LET reversal == IF beforeData.exists
                    THEN beforeData.material :> ReversalInvIncrement(beforeData)
                    ELSE EmptyObject
      forward  == IF afterData.exists
                    THEN afterData.material :> ForwardInvIncrement(afterData)
                    ELSE EmptyObject
  IN Assign(reversal, forward)

\* the FieldValue.increment entries of statsUpdate at transaction.set
statsUpdate(beforeData, afterData) ==
  LET reversal == IF beforeData.exists
                    THEN ReversalStats(beforeData) ELSE EmptyObject
      forward  == IF afterData.exists
                    THEN ForwardStats(afterData) ELSE EmptyObject
  IN Assign(reversal, forward)

\* the plain entries of statsUpdate: updatedAt and lastTransactionDate
statsPlain == [updatedAt |-> now, lastTransactionDate |-> today]

\* history bookkeeping: the field-wise sum of the updates of the events issued
Accumulate(acc, incs) ==
  [k \in DOMAIN acc \cup DOMAIN incs |-> Field(acc, k) + Field(incs, k)]

(***************************************************************************)
(* Initial state: empty collections, no documents, nothing in flight.      *)
(***************************************************************************)
Init ==
  /\ transactions = [i \in Ids |-> NoDoc]
  /\ nextSeq = 0
  /\ pending = <<>>
  /\ handlers = {}
  /\ inventory = EmptyObject
  /\ liveSummary = EmptyObject
  /\ memoryCache = EmptyObject
  /\ calls = {}
  /\ response = [served |-> "none"]
  /\ now = 0
  /\ today = 1
  /\ issuedInv = EmptyObject
  /\ issuedStats = EmptyObject
  /\ reflectedInv = {}
  /\ reflectedStats = {}
  /\ dailyReports = EmptyObject
  /\ errorLog = 0
  /\ jobResult = [job |-> "none", runs |-> 0]
  /\ notifications = <<>>
  /\ monitors = {}

(***************************************************************************)
(* The ledger writer (external): creates, updates or deletes one document  *)
(* of the transactions collection; Firestore issues the change event with  *)
(* the before and after snapshots.                                         *)
(***************************************************************************)
\* Document ids are interchangeable (the handler never reads the id), so a
\* new document takes the smallest id that names no document.
IssueWrite(id, afterData) ==
  LET beforeData == transactions[id] IN
  /\ beforeData # afterData
  /\ beforeData.exists \/ \A j \in 1..(id - 1) : transactions[j].exists
  /\ transactions' = [transactions EXCEPT ![id] = afterData]
  /\ nextSeq' = nextSeq + 1
  /\ pending' = Append(pending,
       [seq |-> nextSeq + 1, before |-> beforeData, after |-> afterData,
        deliveries |-> 0])
  /\ issuedInv' = Accumulate(issuedInv, invUpdate(beforeData, afterData))
  /\ issuedStats' = Accumulate(issuedStats,
                               statsUpdate(beforeData, afterData))
  /\ UNCHANGED <<reportVars, handlers, storeVars, cacheVars, clockVars>>

\* a behaviour of the model holds at most MaxWrites ledger writes
WriteTransaction(id, afterData) ==
  /\ nextSeq < MaxWrites
  /\ IssueWrite(id, afterData)

(***************************************************************************)
(* The query cache (memoryCache, getCachedData, invalidateCache).          *)
(***************************************************************************)
\* cache keys and prefixes are strings, modelled as sequences of characters
LiveSummaryKey == <<"l","i","v","e","_","s","u","m","m","a","r","y">>

PrefixReports == <<"r","e","p","o","r","t","s","_">>

PrefixStats == <<"s","t","a","t","s">>

PrefixInventory == <<"i","n","v","e","n","t","o","r","y">>

\* the prefix "reports" that backfillHistory and generateMonthReport pass
PrefixReportsAll == <<"r","e","p","o","r","t","s">>

\* key.startsWith(prefix)
StartsWith(key, prefix) ==
  /\ Len(prefix) <= Len(key)
  /\ SubSeq(key, 1, Len(prefix)) = prefix

\* a mutant of invalidateCache: the Map is cleared, whatever the prefix
invalidateCacheClear(cache, prefix) == EmptyObject

\* invalidateCache(prefix) applied to a Map
invalidateCache(cache, prefix) ==
  [k \in {key \in DOMAIN cache : ~StartsWith(key, prefix)} |-> cache[k]]

\* the three invalidateCache calls that follow the transaction
InvalidateAfterMutation(cache) ==
  invalidateCache(invalidateCache(invalidateCache(cache, PrefixReports),
                                  PrefixStats), PrefixInventory)

(***************************************************************************)
(* updateInventoryAndStatsOnChange.                                        *)
(***************************************************************************)
RemoveAt(s, i) == SubSeq(s, 1, i - 1) \o SubSeq(s, i + 1, Len(s))

\* the trigger invokes the handler with the i-th undelivered event; the
\* handler returns at once when neither snapshot exists
Dispatch(i) ==
  /\ i \in 1..Len(pending)
  /\ Cardinality(handlers) < MaxHandlers
  /\ pending[i].before.exists \/ pending[i].after.exists
  /\ handlers' = handlers \cup {[ev |-> pending[i], pc |-> "txn"]}
  /\ pending' = RemoveAt(pending, i)
  /\ UNCHANGED <<reportVars, transactions, nextSeq, issuedInv, issuedStats,
                 storeVars, cacheVars, clockVars>>

\* a mutant of TransactionCommit: the two documents are written one after
\* the other and the invocation dies between the writes
CommitInventoryOnly(h) ==
  /\ inventory' = SetMerge(inventory, EmptyObject,
                           invUpdate(h.ev.before, h.ev.after))
  /\ reflectedInv' = reflectedInv \cup {h.ev.seq}
  /\ UNCHANGED <<liveSummary, reflectedStats>>

\* the commit of db.runTransaction: both transaction.set calls take effect
\* in one atomic step
TransactionCommit(h) ==
  /\ inventory' = SetMerge(inventory, EmptyObject,
                           invUpdate(h.ev.before, h.ev.after))
  /\ liveSummary' = SetMerge(liveSummary, statsPlain,
                             statsUpdate(h.ev.before, h.ev.after))
  /\ reflectedInv' = reflectedInv \cup {h.ev.seq}
  /\ reflectedStats' = reflectedStats \cup {h.ev.seq}

\* await db.runTransaction(...) resolves
RunTransaction(h) ==
  /\ h \in handlers
  /\ h.pc = "txn"
  /\ TransactionCommit(h)
  /\ handlers' = (handlers \ {h}) \cup {[h EXCEPT !.pc = "committed"]}
  /\ UNCHANGED <<reportVars, ledgerVars, cacheVars, clockVars>>

\* a mutant of RunTransactionFails: the rejection is caught around the
\* transaction and the cache invalidation that follows still runs
RunTransactionFailsInvalidating(h) ==
  /\ h \in handlers
  /\ h.pc = "txn"
  /\ handlers' = handlers \ {h}
  /\ pending' = Append(pending, h.ev)
  /\ memoryCache' = InvalidateAfterMutation(memoryCache)
  /\ UNCHANGED <<reportVars, transactions, nextSeq, issuedInv, issuedStats,
                 storeVars, calls, response, clockVars>>

\* await db.runTransaction(...) rejects (contention, unavailability): the
\* handler throws, nothing is written and the event is delivered again
RunTransactionFails(h) ==
  /\ h \in handlers
  /\ h.pc = "txn"
  /\ handlers' = handlers \ {h}
  /\ pending' = Append(pending, h.ev)
  /\ UNCHANGED <<reportVars, transactions, nextSeq, issuedInv, issuedStats,
                 storeVars, cacheVars, clockVars>>


(***************************************************************************)
(* updateInventoryAndStatsOnChange: the daily_report block that follows    *)
(* the transaction.  Documents of daily_reports are maps from field paths  *)
(* (tuples of names) to values.                                            *)
(***************************************************************************)
\* t.formaPagamento || "dinheiro"
FormaPagamento(t) ==
  IF "formaPagamento" \in DOMAIN t THEN t.formaPagamento ELSE "dinheiro"

\* String.prototype.toLowerCase on the payment methods of the model
ToLowerCase(str) ==
  CASE str = "PIX" -> "pix"
    [] str = "Dinheiro" -> "dinheiro"
    [] OTHER -> str

\* the keys the `if (beforeData)` part assigns in dailyUpdate
ReversalDaily(beforeData) ==
  LET fp == ToLowerCase(FormaPagamento(beforeData))
      material == beforeData.material
      valorTotal == beforeData.valorTotal
      quantidade == beforeData.quantidade
  IN (<<"totalTransactions">> :> -1) @@
     (<<"paymentStats", fp, "total">> :> -valorTotal) @@
     (<<"paymentStats", fp, "count">> :> -1) @@
     CASE beforeData.tipo = "venda" ->
            (<<"totalSales">> :> -valorTotal) @@
            (<<"salesCount">> :> -1) @@
            (<<"materialStats", material, "vendas">> :> -valorTotal) @@
            (<<"materialStats", material, "quantidade">> :> quantidade)
       [] beforeData.tipo = "compra" ->
            (<<"totalPurchases">> :> -valorTotal) @@
            (<<"purchasesCount">> :> -1) @@
            (<<"materialStats", material, "compras">> :> -valorTotal) @@
            (<<"materialStats", material, "quantidade">> :> -quantidade)
       [] beforeData.tipo = "despesa" ->
            (<<"totalExpenses">> :> -valorTotal) @@
            (<<"expensesCount">> :> -1)

\* the keys the `if (afterData)` part assigns in dailyUpdate
ForwardDaily(afterData) ==
  LET fp == ToLowerCase(FormaPagamento(afterData))
      material == afterData.material
      valorTotal == afterData.valorTotal
      quantidade == afterData.quantidade
  IN (<<"totalTransactions">> :> 1) @@
     (<<"paymentStats", fp, "total">> :> valorTotal) @@
     (<<"paymentStats", fp, "count">> :> 1) @@
     CASE afterData.tipo = "venda" ->
            (<<"totalSales">> :> valorTotal) @@
            (<<"salesCount">> :> 1) @@
            (<<"materialStats", material, "vendas">> :> valorTotal) @@
            (<<"materialStats", material, "quantidade">> :> -quantidade) @@
            (<<"materialStats", material, "transacoes">> :> 1)
       [] afterData.tipo = "compra" ->
            (<<"totalPurchases">> :> valorTotal) @@
            (<<"purchasesCount">> :> 1) @@
            (<<"materialStats", material, "compras">> :> valorTotal) @@
            (<<"materialStats", material, "quantidade">> :> quantidade) @@
            (<<"materialStats", material, "transacoes">> :> 1)
       [] afterData.tipo = "despesa" ->
            (<<"totalExpenses">> :> valorTotal) @@
            (<<"expensesCount">> :> 1)

\* the FieldValue.increment entries of dailyUpdate at transaction.set
dailyUpdate(beforeData, afterData) ==
  LET reversal == IF beforeData.exists
                    THEN ReversalDaily(beforeData) ELSE EmptyObject
      forward  == IF afterData.exists
                    THEN ForwardDaily(afterData) ELSE EmptyObject
  IN Assign(reversal, forward)

\* the plain entries of dailyUpdate: date, dateString and updatedAt
dailyPlain ==
  (<<"date">> :> today) @@ (<<"dateString">> :> today) @@
  (<<"updatedAt">> :> now)

\* the identifiers bound where the daily_report block runs: the module's
\* requires and constants and the constants of the handler's own body.
\* `now`, `today`, `invUpdate`, `statsUpdate` and the parameter `transaction`
\* are bound inside the callback passed to db.runTransaction only.
HandlerScope ==
  {"admin", "db", "logger", "memoryCache", "event", "inventoryRef",
   "statsRef", "beforeData", "afterData"}

\* the document daily_reports/{d}, empty when it does not exist
DailyReport(reports, d) ==
  IF d \in DOMAIN reports THEN reports[d] ELSE EmptyObject

\* the try block: it reads `today` at its first statement and `transaction`
\* at its last one; reading an unbound identifier throws a ReferenceError
DailyReportBlock(h) ==
  IF {"today", "transaction"} \subseteq HandlerScope
    THEN [threw |-> FALSE,
          reports |-> Assign(dailyReports,
            today :> SetMerge(DailyReport(dailyReports, today), dailyPlain,
                              dailyUpdate(h.ev.before, h.ev.after)))]
    ELSE [threw |-> TRUE, reports |-> dailyReports]

\* a mutant of CatchDailyError: the catch logs and throws the error again
RethrowDailyError(threw) ==
  [logged |-> IF threw THEN 1 ELSE 0, rethrown |-> threw]

\* catch (e) { logger.error(...) }: the error is logged and dropped
CatchDailyError(threw) ==
  [logged |-> IF threw THEN 1 ELSE 0, rethrown |-> FALSE]

\* the handler resumes after the commit: the cache prefixes are invalidated,
\* the daily_report block runs inside its try/catch and the handler returns
\* { success: true }.  The trigger acknowledges the event or, delivering at
\* least once, delivers it again; an invocation that throws is retried.
HandlerReturn(h, redeliver) ==
  LET block == DailyReportBlock(h)
      caught == CatchDailyError(block.threw)
  IN
  /\ h \in handlers
  /\ h.pc = "committed"
  /\ memoryCache' = InvalidateAfterMutation(memoryCache)
  /\ dailyReports' = block.reports
  /\ errorLog' = errorLog + caught.logged
  /\ handlers' = handlers \ {h}
  /\ IF caught.rethrown
       THEN /\ ~redeliver
            /\ pending' = Append(pending, h.ev)
       ELSE IF redeliver
         THEN /\ h.ev.deliveries < MaxRedeliveries
              /\ pending' = Append(pending,
                   [h.ev EXCEPT !.deliveries = h.ev.deliveries + 1])
         ELSE pending' = pending
  /\ UNCHANGED <<jobResult, notifyVars, transactions, nextSeq, issuedInv,
                 issuedStats, storeVars, calls, response, clockVars>>

(***************************************************************************)
(* Counter reset jobs.                                                     *)
(***************************************************************************)
\* a mutant of resetDailyStats: the reset empties the stock document as well
resetDailyStatsAndStock ==
  /\ liveSummary' = SetMerge(liveSummary,
       [transacoesHoje |-> 0, vendasHoje |-> 0, comprasHoje |-> 0,
        lastDailyReset |-> now], EmptyObject)
  /\ inventory' = EmptyObject
  /\ memoryCache' = invalidateCache(memoryCache, PrefixStats)
  /\ UNCHANGED <<reportVars, ledgerVars, handlers, reflectedInv,
                 reflectedStats, calls, response, clockVars>>

resetDailyStats ==
  /\ liveSummary' = SetMerge(liveSummary,
       [transacoesHoje |-> 0, vendasHoje |-> 0, comprasHoje |-> 0,
        lastDailyReset |-> now], EmptyObject)
  /\ memoryCache' = invalidateCache(memoryCache, PrefixStats)
  /\ UNCHANGED <<reportVars, ledgerVars, handlers, inventory, reflectedInv,
                 reflectedStats, calls, response, clockVars>>

\* a mutant of resetMonthlyStats: the reset zeroes the counters of the day
\* as well
resetMonthlyStatsAndDay ==
  /\ liveSummary' = SetMerge(liveSummary,
       [totalVendasMes |-> 0, totalComprasMes |-> 0, totalDespesasMes |-> 0,
        vendasCountMes |-> 0, comprasCountMes |-> 0, despesasCountMes |-> 0,
        totalTransacoesMes |-> 0, transacoesHoje |-> 0, vendasHoje |-> 0,
        comprasHoje |-> 0, lastMonthlyReset |-> now], EmptyObject)
  /\ memoryCache' = invalidateCache(memoryCache, PrefixStats)
  /\ UNCHANGED <<reportVars, ledgerVars, handlers, inventory, reflectedInv,
                 reflectedStats, calls, response, clockVars>>

resetMonthlyStats ==
  /\ liveSummary' = SetMerge(liveSummary,
       [totalVendasMes |-> 0, totalComprasMes |-> 0, totalDespesasMes |-> 0,
        vendasCountMes |-> 0, comprasCountMes |-> 0, despesasCountMes |-> 0,
        totalTransacoesMes |-> 0, lastMonthlyReset |-> now], EmptyObject)
  /\ memoryCache' = invalidateCache(memoryCache, PrefixStats)
  /\ UNCHANGED <<reportVars, ledgerVars, handlers, inventory, reflectedInv,
                 reflectedStats, calls, response, clockVars>>

(***************************************************************************)
(* getLiveSummary through getCachedData.                                   *)
(***************************************************************************)
\* a mutant of CacheFresh: an entry whose age equals the time-to-live is
\* still served
CacheFreshInclusive(cache, key) ==
  /\ key \in DOMAIN cache
  /\ now - cache[key].timestamp <= CACHE_TTL

\* cached && Date.now() - cached.timestamp < CACHE_TTL
CacheFresh(cache, key) ==
  /\ key \in DOMAIN cache
  /\ now - cache[key].timestamp < CACHE_TTL

\* the value of the fetch function of getLiveSummary
LiveSummaryData ==
  IF DOMAIN liveSummary = {}
    THEN [totalVendasMes |-> 0, totalComprasMes |-> 0, totalDespesasMes |-> 0,
          vendasHoje |-> 0, comprasHoje |-> 0, transacoesHoje |-> 0]
    ELSE liveSummary

\* getCachedData returns cached.data
GetLiveSummaryHit ==
  /\ CacheFresh(memoryCache, LiveSummaryKey)
  /\ response' = [served |-> "cache",
                  data |-> memoryCache[LiveSummaryKey].data]
  /\ UNCHANGED <<reportVars, ledgerVars, handlers, storeVars, memoryCache, calls,
                 clockVars>>

\* getCachedData finds no fresh entry and awaits fetchFn()
GetLiveSummaryMiss ==
  /\ ~CacheFresh(memoryCache, LiveSummaryKey)
  /\ Cardinality(calls) < MaxCalls
  /\ calls' = calls \cup {[key |-> LiveSummaryKey, pc |-> "fetch"]}
  /\ UNCHANGED <<reportVars, ledgerVars, handlers, storeVars, memoryCache, response,
                 clockVars>>

\* db.doc("reports/live_summary").get() reads the document
FetchLiveSummary(c) ==
  /\ c \in calls
  /\ c.pc = "fetch"
  /\ c.key = LiveSummaryKey
  /\ calls' = (calls \ {c}) \cup
       {[key |-> c.key, pc |-> "store", data |-> LiveSummaryData]}
  /\ UNCHANGED <<reportVars, ledgerVars, handlers, storeVars, memoryCache, response,
                 clockVars>>

\* memoryCache.set(key, { data, timestamp: Date.now() }); return data
StoreCached(c) ==
  /\ c \in calls
  /\ c.pc = "store"
  /\ memoryCache' = Assign(memoryCache,
       c.key :> [data |-> c.data, timestamp |-> now])
  /\ response' = [served |-> "fetch", data |-> c.data]
  /\ calls' = calls \ {c}
  /\ UNCHANGED <<reportVars, ledgerVars, handlers, storeVars, clockVars>>

(***************************************************************************)
(* getAggregatedReports through getCachedData.                             *)
(***************************************************************************)
DigitChars == <<"1", "2", "3", "4", "5", "6", "7", "8", "9">>

\* the date key of a day (toISOString().split("T")[0]); the model writes the
\* day's number
DateString(d) == <<DigitChars[d]>>

\* cacheKey = `reports_${startDate}_${endDate}`
AggregatedReportsKey(startDate, endDate) ==
  PrefixReports \o DateString(startDate) \o <<"_">> \o DateString(endDate)

\* the documents of daily_reports whose id lies in [startDate, endDate]
AggregatedReportsData(startDate, endDate) ==
  [d \in {x \in DOMAIN dailyReports : startDate <= x /\ x <= endDate} |->
     dailyReports[d]]

\* getCachedData returns cached.data
GetAggregatedReportsHit(startDate, endDate) ==
  LET cacheKey == AggregatedReportsKey(startDate, endDate) IN
  /\ CacheFresh(memoryCache, cacheKey)
  /\ response' = [served |-> "cache", data |-> memoryCache[cacheKey].data]
  /\ UNCHANGED <<reportVars, ledgerVars, handlers, storeVars, memoryCache,
                 calls, clockVars>>

\* getCachedData finds no fresh entry and awaits fetchFn()
GetAggregatedReportsMiss(startDate, endDate) ==
  LET cacheKey == AggregatedReportsKey(startDate, endDate) IN
  /\ ~CacheFresh(memoryCache, cacheKey)
  /\ Cardinality(calls) < MaxCalls
  /\ calls' = calls \cup
       {[key |-> cacheKey, pc |-> "fetch",
         startDate |-> startDate, endDate |-> endDate]}
  /\ UNCHANGED <<reportVars, ledgerVars, handlers, storeVars, memoryCache,
                 response, clockVars>>

\* the query on daily_reports returns
FetchAggregatedReports(c) ==
  /\ c \in calls
  /\ c.pc = "fetch"
  /\ c.key # LiveSummaryKey
  /\ calls' = (calls \ {c}) \cup
       {[key |-> c.key, pc |-> "store",
         data |-> AggregatedReportsData(c.startDate, c.endDate)]}
  /\ UNCHANGED <<reportVars, ledgerVars, handlers, storeVars, memoryCache,
                 response, clockVars>>

(***************************************************************************)
(* Paginated scans of the transactions collection.                         *)
(***************************************************************************)
\* the documents whose `data` lies in [start, end], as the query orders
\* them: by data, documents of equal data by id
RECURSIVE OrderByData(_)
OrderByData(ids) ==
  IF ids = {} THEN <<>>
  ELSE LET first == CHOOSE i \in ids : \A j \in ids :
                      \/ transactions[i].data < transactions[j].data
                      \/ /\ transactions[i].data = transactions[j].data
                         /\ i <= j
       IN <<first>> \o OrderByData(ids \ {first})

TransactionsQuery(start, end) ==
  OrderByData({id \in Ids : /\ transactions[id].exists
                            /\ start <= transactions[id].data
                            /\ transactions[id].data <= end})

\* query.startAfter(lastDoc).limit(BATCH_SIZE).get(); lastDoc is the
\* position of the last document read, 0 for null
QueryPage(docs, lastDoc) ==
  SubSeq(docs, lastDoc + 1,
         IF lastDoc + BATCH_SIZE < Len(docs)
           THEN lastDoc + BATCH_SIZE ELSE Len(docs))

\* a mutant of ScanLoop: the scan stops after its first page
ScanLoopFirstPage(docs, lastDoc, seen, queries) ==
  [seen |-> seen \o QueryPage(docs, lastDoc), queries |-> queries + 1]

\* the while (hasMore) loop: the ids of the documents passed to forEach, in
\* order, and the number of queries issued
RECURSIVE ScanLoop(_, _, _, _)
ScanLoop(docs, lastDoc, seen, queries) ==
  LET snapshot == QueryPage(docs, lastDoc)
      hasMore == ~(snapshot = <<>> \/ Len(snapshot) < BATCH_SIZE)
      nextLast == IF snapshot # <<>> THEN lastDoc + Len(snapshot)
                                     ELSE lastDoc
  IN IF hasMore
       THEN ScanLoop(docs, nextLast, seen \o snapshot, queries + 1)
       ELSE [seen |-> seen \o snapshot, queries |-> queries + 1]

(***************************************************************************)
(* generateHistoricalDailyReport (the rollup finalizer).                   *)
(***************************************************************************)
\* obj.field += n for every field of incs
AddTo(obj, incs) ==
  [k \in DOMAIN obj \cup DOMAIN incs |->
     IF k \in DOMAIN incs THEN Field(obj, k) + incs[k] ELSE obj[k]]

\* the object `stats` before the scan
NewStats(dateString) ==
  (<<"date">> :> dateString) @@ (<<"dateString">> :> dateString) @@
  (<<"totalSales">> :> 0) @@ (<<"totalPurchases">> :> 0) @@
  (<<"totalExpenses">> :> 0) @@ (<<"totalProfit">> :> 0) @@
  (<<"totalTransactions">> :> 0) @@ (<<"salesCount">> :> 0) @@
  (<<"purchasesCount">> :> 0) @@ (<<"expensesCount">> :> 0) @@
  (<<"generatedAt">> :> now)

\* { vendas: 0, compras: 0, quantidade: 0, lucro: 0, transacoes: 0 }
NewMaterialStats(material) ==
  [k \in {<<"materialStats", material, f>> :
            f \in {"vendas", "compras", "quantidade", "lucro",
                   "transacoes"}} |-> 0]

\* { count: 0, total: 0 }
NewPaymentStats(fp) ==
  [k \in {<<"paymentStats", fp, f>> : f \in {"count", "total"}} |-> 0]

\* the body of snapshot.docs.forEach for the document t
RollupForEach(stats, t) ==
  LET valorTotal == t.valorTotal
      material == t.material
      formaPagamento == ToLowerCase(FormaPagamento(t))
      quantidade == t.quantidade
      vendas == <<"materialStats", material, "vendas">>
      compras == <<"materialStats", material, "compras">>
      s1 == AddTo(stats, <<"totalTransactions">> :> 1)
      s2 == CASE t.tipo = "venda" ->
                   AddTo(s1, (<<"totalSales">> :> valorTotal) @@
                             (<<"salesCount">> :> 1))
              [] t.tipo = "compra" ->
                   AddTo(s1, (<<"totalPurchases">> :> valorTotal) @@
                             (<<"purchasesCount">> :> 1))
              [] t.tipo = "despesa" ->
                   AddTo(s1, (<<"totalExpenses">> :> valorTotal) @@
                             (<<"expensesCount">> :> 1))
              [] OTHER -> s1
      s3 == IF vendas \in DOMAIN s2
              THEN s2 ELSE Assign(s2, NewMaterialStats(material))
      s4 == CASE t.tipo = "venda" ->
                   AddTo(s3, (vendas :> valorTotal) @@
                     (<<"materialStats", material, "quantidade">> :>
                        -quantidade))
              [] t.tipo = "compra" ->
                   AddTo(s3, (compras :> valorTotal) @@
                     (<<"materialStats", material, "quantidade">> :>
                        quantidade))
              [] OTHER -> s3
      s5 == AddTo(s4, <<"materialStats", material, "transacoes">> :> 1)
      s6 == Assign(s5, <<"materialStats", material, "lucro">> :>
                         (s5[vendas] - s5[compras]))
      s7 == IF <<"paymentStats", formaPagamento, "count">> \in DOMAIN s6
              THEN s6 ELSE Assign(s6, NewPaymentStats(formaPagamento))
  IN AddTo(s7, (<<"paymentStats", formaPagamento, "count">> :> 1) @@
               (<<"paymentStats", formaPagamento, "total">> :> valorTotal))

\* forEach over the documents read, in order
RECURSIVE RollupFold(_, _, _)
RollupFold(stats, seen, i) ==
  IF i > Len(seen) THEN stats
  ELSE RollupFold(RollupForEach(stats, transactions[seen[i]]), seen, i + 1)

\* a mutant of TotalProfit: the expenses are not deducted
TotalProfitWithoutExpenses(stats) ==
  stats[<<"totalSales">>] - stats[<<"totalPurchases">>]

\* stats.totalSales - stats.totalPurchases - stats.totalExpenses
TotalProfit(stats) ==
  stats[<<"totalSales">>] - stats[<<"totalPurchases">>]
    - stats[<<"totalExpenses">>]

\* a mutant of ReportExists: the finalizer does not look for a record
ReportExistsNever(dateString) == FALSE

\* existingReport.exists
ReportExists(dateString) == dateString \in DOMAIN dailyReports

\* one run of the scheduled function; the day before the current one must
\* be a day of the model
generateHistoricalDailyReport ==
  LET dateString == today - 1
      scan == ScanLoop(TransactionsQuery(dateString, dateString), 0, <<>>, 0)
      scanned == RollupFold(NewStats(dateString), scan.seen, 1)
      stats == Assign(scanned, <<"totalProfit">> :> TotalProfit(scanned))
  IN
  /\ dateString \in Days
  /\ jobResult.runs < MaxRuns
  /\ IF ReportExists(dateString)
       THEN /\ dailyReports' = dailyReports
            /\ jobResult' = [job |-> "generateHistoricalDailyReport",
                             runs |-> jobResult.runs + 1,
                             dateString |-> dateString,
                             queries |-> 0, writes |-> 0]
       ELSE /\ dailyReports' = Assign(dailyReports, dateString :> stats)
            /\ jobResult' = [job |-> "generateHistoricalDailyReport",
                             runs |-> jobResult.runs + 1,
                             dateString |-> dateString,
                             queries |-> scan.queries, writes |-> 1]
  /\ UNCHANGED <<errorLog, notifyVars, ledgerVars, handlers, storeVars,
                 cacheVars, clockVars>>

(***************************************************************************)
(* backfillHistory (the reconciliation engine).                            *)
(***************************************************************************)
\* the sum of f[x] over the elements x of S
RECURSIVE SumOver(_, _)
SumOver(f, S) ==
  IF S = {} THEN 0
  ELSE LET x == CHOOSE y \in S : TRUE IN f[x] + SumOver(f, S \ {x})

\* the calendar month of a day
MonthOf(d) == d \div DaysPerMonth

\* a mutant of NewDay: the accumulation starts from the stored aggregates
NewDayFromExisting(dateString) ==
  IF dateString \in DOMAIN dailyReports
    THEN [k \in DOMAIN dailyReports[dateString] \
                  {<<"generatedAt">>, <<"generatedBy">>} |->
            dailyReports[dateString][k]]
    ELSE (<<"date">> :> dateString) @@ (<<"dateString">> :> dateString) @@
         (<<"totalSales">> :> 0) @@ (<<"totalPurchases">> :> 0) @@
         (<<"totalExpenses">> :> 0) @@ (<<"totalProfit">> :> 0) @@
         (<<"totalTransactions">> :> 0) @@ (<<"salesCount">> :> 0) @@
         (<<"purchasesCount">> :> 0) @@ (<<"expensesCount">> :> 0)

\* dailyData[dateString] when the day is first met in Phase 1
NewDay(dateString) ==
  (<<"date">> :> dateString) @@ (<<"dateString">> :> dateString) @@
  (<<"totalSales">> :> 0) @@ (<<"totalPurchases">> :> 0) @@
  (<<"totalExpenses">> :> 0) @@ (<<"totalProfit">> :> 0) @@
  (<<"totalTransactions">> :> 0) @@ (<<"salesCount">> :> 0) @@
  (<<"purchasesCount">> :> 0) @@ (<<"expensesCount">> :> 0)

\* the body of the Phase 1 forEach for the document t, on its day's object
BackfillDay(day, t) ==
  LET valorTotal == t.valorTotal
      material == t.material
      formaPagamento == ToLowerCase(FormaPagamento(t))
      quantidade == t.quantidade
      vendas == <<"materialStats", material, "vendas">>
      compras == <<"materialStats", material, "compras">>
      d1 == AddTo(day, <<"totalTransactions">> :> 1)
      d2 == CASE t.tipo = "venda" ->
                   AddTo(d1, (<<"totalSales">> :> valorTotal) @@
                             (<<"salesCount">> :> 1))
              [] t.tipo = "compra" ->
                   AddTo(d1, (<<"totalPurchases">> :> valorTotal) @@
                             (<<"purchasesCount">> :> 1))
              [] t.tipo = "despesa" ->
                   AddTo(d1, (<<"totalExpenses">> :> valorTotal) @@
                             (<<"expensesCount">> :> 1))
              [] OTHER -> d1
      d3 == IF vendas \in DOMAIN d2
              THEN d2 ELSE Assign(d2, NewMaterialStats(material))
      d4 == CASE t.tipo = "venda" ->
                   AddTo(d3, (vendas :> valorTotal) @@
                     (<<"materialStats", material, "quantidade">> :>
                        -quantidade))
              [] t.tipo = "compra" ->
                   AddTo(d3, (compras :> valorTotal) @@
                     (<<"materialStats", material, "quantidade">> :>
                        quantidade))
              [] OTHER -> d3
      d5 == AddTo(d4, <<"materialStats", material, "transacoes">> :> 1)
      d6 == Assign(d5, <<"materialStats", material, "lucro">> :>
                         (d5[vendas] - d5[compras]))
      d7 == IF <<"paymentStats", formaPagamento, "count">> \in DOMAIN d6
              THEN d6 ELSE Assign(d6, NewPaymentStats(formaPagamento))
  IN AddTo(d7, (<<"paymentStats", formaPagamento, "count">> :> 1) @@
               (<<"paymentStats", formaPagamento, "total">> :> valorTotal))

\* Phase 1: dailyData after the forEach over the documents read, in order
RECURSIVE BackfillFold(_, _, _)
BackfillFold(dailyData, seen, i) ==
  IF i > Len(seen) THEN dailyData
  ELSE LET t == transactions[seen[i]]
           dateString == t.data
           day == IF dateString \in DOMAIN dailyData
                    THEN dailyData[dateString] ELSE NewDay(dateString)
       IN BackfillFold(Assign(dailyData, dateString :> BackfillDay(day, t)),
                       seen, i + 1)

\* Object.keys(dailyData).sort()
RECURSIVE SortKeys(_)
SortKeys(keys) ==
  IF keys = {} THEN <<>>
  ELSE LET first == CHOOSE k \in keys : \A j \in keys : k <= j
       IN <<first>> \o SortKeys(keys \ {first})

\* a mutant of ExistingReport: Phase 2 takes every day as having no record
ExistingReportNever(reports, dateString) == FALSE

\* (await docRef.get()).exists
ExistingReport(reports, dateString) == dateString \in DOMAIN reports

\* a mutant of SkipDay: the day is passed over without being counted
SkipDayUncounted(st) == st

\* skipped++; continue
SkipDay(st) == [st EXCEPT !.skipped = @ + 1]

\* a mutant of CommitBatch: the batch is committed and kept, no new batch
\* is started
CommitBatchKept(st) ==
  [st EXCEPT !.reports = Assign(st.reports, st.batch),
             !.commits = Append(st.commits, st.batchCount),
             !.batches = Append(st.batches, st.sets)]

\* await currentBatch.commit(); currentBatch = db.batch(); batchCount = 0;
\* `sets` is the sequence of the dates set in the current batch, `batches`
\* the sequence of the committed batches
CommitBatch(st) ==
  [st EXCEPT !.reports = Assign(st.reports, st.batch),
             !.commits = Append(st.commits, st.batchCount),
             !.batches = Append(st.batches, st.sets),
             !.batch = EmptyObject,
             !.sets = <<>>,
             !.batchCount = 0]

\* Phase 2: the for loop over dateKeys and the commit of the last batch
RECURSIVE Phase2(_, _, _, _, _)
Phase2(dailyData, dateKeys, i, forceOverwrite, st) ==
  IF i > Len(dateKeys)
    THEN IF st.batchCount > 0 THEN CommitBatch(st) ELSE st
  ELSE
    LET dateString == dateKeys[i]
        scanned == dailyData[dateString]
        day == Assign(scanned,
                 (<<"totalProfit">> :> TotalProfit(scanned)) @@
                 (<<"generatedAt">> :> now) @@
                 (<<"generatedBy">> :> "backfillHistory"))
        added == [st EXCEPT !.batch = Assign(st.batch, dateString :> day),
                            !.sets = Append(@, dateString),
                            !.batchCount = @ + 1,
                            !.daysProcessed = @ + 1]
    IN IF ~forceOverwrite /\ ExistingReport(st.reports, dateString)
         THEN Phase2(dailyData, dateKeys, i + 1, forceOverwrite, SkipDay(st))
         ELSE Phase2(dailyData, dateKeys, i + 1, forceOverwrite,
                     IF added.batchCount >= WRITE_BATCH_SIZE
                       THEN CommitBatch(added) ELSE added)

\* a mutant of monthStats: the sums run over every daily_reports document,
\* whatever its month
monthStatsAllDays(reports) ==
  LET Total(path) == SumOver([d \in DOMAIN reports |->
                                Field(reports[d], path)], DOMAIN reports)
  IN [totalVendasMes |-> Total(<<"totalSales">>),
      totalComprasMes |-> Total(<<"totalPurchases">>),
      totalDespesasMes |-> Total(<<"totalExpenses">>),
      vendasCountMes |-> Total(<<"salesCount">>),
      comprasCountMes |-> Total(<<"purchasesCount">>),
      despesasCountMes |-> Total(<<"expensesCount">>),
      totalTransacoesMes |-> Total(<<"totalTransactions">>)]

\* Phase 3: the monthly counters summed over the daily_reports documents of
\* the current month
monthStats(reports) ==
  LET docs == {d \in DOMAIN reports : MonthOf(d) = MonthOf(today)}
      Total(path) == SumOver([d \in DOMAIN reports |->
                                Field(reports[d], path)], docs)
  IN [totalVendasMes |-> Total(<<"totalSales">>),
      totalComprasMes |-> Total(<<"totalPurchases">>),
      totalDespesasMes |-> Total(<<"totalExpenses">>),
      vendasCountMes |-> Total(<<"salesCount">>),
      comprasCountMes |-> Total(<<"purchasesCount">>),
      despesasCountMes |-> Total(<<"expensesCount">>),
      totalTransacoesMes |-> Total(<<"totalTransactions">>)]

\* one call of backfillHistory with request.data = { startDate, endDate,
\* forceOverwrite }; the range is given in days
backfillHistory(startDate, endDate, forceOverwrite) ==
  LET scan == ScanLoop(TransactionsQuery(startDate, endDate), 0, <<>>, 0)
      dailyData == BackfillFold(EmptyObject, scan.seen, 1)
      done == Phase2(dailyData, SortKeys(DOMAIN dailyData), 1, forceOverwrite,
                     [reports |-> dailyReports, batch |-> EmptyObject,
                      batchCount |-> 0, daysProcessed |-> 0, skipped |-> 0,
                      commits |-> <<>>, sets |-> <<>>, batches |-> <<>>])
  IN
  /\ startDate <= endDate
  /\ jobResult.runs < MaxRuns
  /\ dailyReports' = done.reports
  /\ liveSummary' = SetMerge(liveSummary,
       monthStats(done.reports) @@
         [updatedAt |-> now, lastBackfill |-> now], EmptyObject)
  /\ memoryCache' = invalidateCache(invalidateCache(memoryCache, PrefixStats),
                                    PrefixReportsAll)
  /\ jobResult' =
       [job |-> "backfillHistory",
        runs |-> jobResult.runs + 1,
        startDate |-> startDate, endDate |-> endDate,
        forceOverwrite |-> forceOverwrite,
        totalTransactionsProcessed |-> Len(scan.seen),
        daysCreated |-> done.daysProcessed,
        daysSkipped |-> done.skipped,
        commits |-> done.commits,
        batches |-> done.batches,
        ledgerVersion |-> nextSeq,
        repeated |-> /\ jobResult.job = "backfillHistory"
                     /\ jobResult.startDate = startDate
                     /\ jobResult.endDate = endDate
                     /\ jobResult.forceOverwrite = forceOverwrite
                     /\ jobResult.ledgerVersion = nextSeq]
  /\ UNCHANGED <<errorLog, notifyVars, ledgerVars, handlers, inventory,
                 reflectedInv, reflectedStats, calls, response, clockVars>>

\* the dates set in the batches of a sequence of committed batches
BatchDates(batches) ==
  UNION {{batches[i][j] : j \in 1..Len(batches[i])} : i \in 1..Len(batches)}

\* a call of backfillHistory that is abandoned in Phase 2 (the function is
\* stopped at its timeout, or the instance is lost) after `committed` of its
\* batches, before the last one: the committed documents stay, Phase 3 and
\* the cache invalidation do not run; `pendingDates` and `complete` keep
\* what the run had still to write and what it would have left behind
backfillHistoryAbandoned(startDate, endDate, forceOverwrite, committed) ==
  LET scan == ScanLoop(TransactionsQuery(startDate, endDate), 0, <<>>, 0)
      dailyData == BackfillFold(EmptyObject, scan.seen, 1)
      done == Phase2(dailyData, SortKeys(DOMAIN dailyData), 1, forceOverwrite,
                     [reports |-> dailyReports, batch |-> EmptyObject,
                      batchCount |-> 0, daysProcessed |-> 0, skipped |-> 0,
                      commits |-> <<>>, sets |-> <<>>, batches |-> <<>>])
      written == BatchDates(SubSeq(done.batches, 1, committed))
  IN
  /\ startDate <= endDate
  /\ jobResult.runs < MaxRuns
  /\ jobResult.job # "backfillHistoryAbandoned"
  /\ committed >= 1
  /\ committed < Len(done.batches)
  /\ dailyReports' = Assign(dailyReports, [d \in written |-> done.reports[d]])
  /\ jobResult' =
       [job |-> "backfillHistoryAbandoned",
        runs |-> jobResult.runs,
        startDate |-> startDate, endDate |-> endDate,
        forceOverwrite |-> forceOverwrite,
        batches |-> SubSeq(done.batches, 1, committed),
        pendingDates |-> BatchDates(done.batches) \ written,
        complete |-> done.reports,
        ledgerVersion |-> nextSeq]
  /\ UNCHANGED <<errorLog, notifyVars, ledgerVars, handlers, storeVars,
                 cacheVars, clockVars>>

(***************************************************************************)
(* generateMonthReport and cleanupOldReports.                              *)
(***************************************************************************)
\* the for loop of generateMonthReport over Object.entries(dailyData): every
\* write goes to one batch
RECURSIVE MonthReportLoop(_, _, _, _, _)
MonthReportLoop(dailyData, dateKeys, i, forceOverwrite, st) ==
  IF i > Len(dateKeys) THEN st
  ELSE
    LET dateString == dateKeys[i]
        scanned == dailyData[dateString]
        day == Assign(scanned,
                 (<<"totalProfit">> :> TotalProfit(scanned)) @@
                 (<<"generatedAt">> :> now) @@
                 (<<"generatedBy">> :> "generateMonthReport"))
    IN IF ~forceOverwrite /\ dateString \in DOMAIN dailyReports
         THEN MonthReportLoop(dailyData, dateKeys, i + 1, forceOverwrite,
                              [st EXCEPT !.skipped = @ + 1])
         ELSE MonthReportLoop(dailyData, dateKeys, i + 1, forceOverwrite,
                [st EXCEPT !.batch = Assign(@, dateString :> day),
                           !.daysCreated = @ + 1])

\* one call of generateMonthReport with request.data = { year, month,
\* forceOverwrite }; the scan and the accumulation per day are those of
\* backfillHistory, over the entries dated in the month
generateMonthReport(month, forceOverwrite) ==
  LET docs == OrderByData({id \in Ids :
                             /\ transactions[id].exists
                             /\ MonthOf(transactions[id].data) = month})
      scan == ScanLoop(docs, 0, <<>>, 0)
      dailyData == BackfillFold(EmptyObject, scan.seen, 1)
      done == MonthReportLoop(dailyData, SortKeys(DOMAIN dailyData), 1,
                              forceOverwrite,
                              [batch |-> EmptyObject, daysCreated |-> 0,
                               skipped |-> 0])
  IN
  /\ jobResult.runs < MaxRuns
  /\ dailyReports' = Assign(dailyReports, done.batch)
  /\ memoryCache' = invalidateCache(memoryCache, PrefixReportsAll)
  /\ jobResult' = [job |-> "generateMonthReport",
                   runs |-> jobResult.runs + 1,
                   month |-> month,
                   forceOverwrite |-> forceOverwrite,
                   transactionsProcessed |-> Len(scan.seen),
                   daysCreated |-> done.daysCreated,
                   daysSkipped |-> done.skipped]
  /\ UNCHANGED <<errorLog, notifyVars, ledgerVars, handlers, storeVars, calls,
                 response, clockVars>>

\* a mutant of OldReports: no report is old enough
OldReportsNone == {}

\* the documents of daily_reports whose id is below the cutoff date; the
\* collection of the model holds fewer documents than the limit of 100
OldReports ==
  LET cutoffString == today - CLEANUP_AGE_DAYS
  IN {d \in DOMAIN dailyReports : d < cutoffString}

\* one run of cleanupOldReports: the old reports are deleted in one batch
cleanupOldReports ==
  /\ jobResult.runs < MaxRuns
  /\ dailyReports' = [d \in DOMAIN dailyReports \ OldReports |->
                        dailyReports[d]]
  /\ jobResult' = [job |-> "cleanupOldReports",
                   runs |-> jobResult.runs + 1,
                   removed |-> Cardinality(OldReports)]
  /\ UNCHANGED <<errorLog, notifyVars, ledgerVars, handlers, storeVars,
                 cacheVars, clockVars>>

(***************************************************************************)
(* checkLowStock (the stock threshold monitor).  Names of document fields  *)
(* are sequences of the parts they are written from.                       *)
(***************************************************************************)
\* the key the change handler writes a material's stock under: the template
\* literal `${material}.quantidade`.  ref.set(data, { merge: true }) takes
\* the keys of data as field names, so the document inventory/current holds
\* one top-level field of that name per material, whose value is a number.
InventoryField(material) == <<material, ".quantidade">>

\* Object.entries(inventory): the fields of inventory/current as stored
InventoryEntries ==
  {<<InventoryField(m), inventory[m]>> : m \in DOMAIN inventory}

\* the table minLevels of checkLowStock
minLevels ==
  (<<"ferro">> :> 100) @@ (<<"aluminio">> :> 80) @@ (<<"cobre">> :> 50) @@
  (<<"latinha">> :> 200) @@ (<<"panela">> :> 25) @@ (<<"bloco2">> :> 15) @@
  (<<"chapa">> :> 50) @@ (<<"perfil pintado">> :> 30) @@
  (<<"perfil natural">> :> 30) @@ (<<"bloco">> :> 20) @@
  (<<"metal">> :> 60) @@ (<<"inox">> :> 30) @@ (<<"bateria">> :> 40) @@
  (<<"motor_gel">> :> 10) @@ (<<"roda">> :> 15) @@ (<<"papelao">> :> 100) @@
  (<<"rad_metal">> :> 35) @@ (<<"rad_cobre">> :> 30) @@
  (<<"rad_chapa">> :> 25) @@ (<<"tela">> :> 50) @@ (<<"antimonio">> :> 10) @@
  (<<"cabo_ai">> :> 40) @@ (<<"tubo_limpo">> :> 20)

\* minLevels[material] || 10
MinLevelOf(material) ==
  IF material \in DOMAIN minLevels THEN minLevels[material] ELSE 10

\* data?.quantidade || 0: a number has no property quantidade
QuantidadeOf(data) ==
  IF data \in Int THEN 0 ELSE Field(data, "quantidade")

\* quantidade < minLevel / 2 ? "critico" : "baixo"
Nivel(quantidade, minLevel) ==
  IF 2 * quantidade < minLevel THEN "critico" ELSE "baixo"

\* lowStockItems after the forEach over Object.entries(inventory); the model
\* keeps the members of the array, not their order
lowStockItems ==
  {[material |-> e[1],
    quantidade |-> QuantidadeOf(e[2]),
    minLevel |-> MinLevelOf(e[1]),
    nivel |-> Nivel(QuantidadeOf(e[2]), MinLevelOf(e[1]))] :
     e \in {x \in InventoryEntries :
              /\ x[1] # <<"lastUpdated">>
              /\ QuantidadeOf(x[2]) <= MinLevelOf(x[1])}}

\* the message of the notification
Message(items) ==
  <<Cardinality(items),
    IF Cardinality(items) = 1 THEN "material está" ELSE "materiais estão",
    "com estoque baixo">>

\* checkLowStock reads inventory/current and builds lowStockItems; it returns
\* at once when the document does not exist (it exists from the first commit
\* of the change handler on) or when no item is listed.  At most `limit`
\* invocations are in flight.
CheckLowStockStart(limit) ==
  /\ Cardinality(monitors) < limit
  /\ jobResult.runs < MaxRuns
  /\ reflectedInv # {}
  /\ lowStockItems # {}
  /\ monitors' = monitors \cup
       {[run |-> jobResult.runs + 1, pc |-> "query", items |-> lowStockItems]}
  /\ jobResult' = [job |-> "checkLowStock", runs |-> jobResult.runs + 1]
  /\ UNCHANGED <<dailyReports, errorLog, notifications, ledgerVars, handlers,
                 storeVars, cacheVars, clockVars>>

\* a mutant of ExistingNotification: the query never finds a document
ExistingNotificationNone == {}

\* the documents the query where("type", "==", "low_stock")
\* .where("read", "==", false) matches
ExistingNotification ==
  {i \in 1..Len(notifications) :
     notifications[i].type = "low_stock" /\ ~notifications[i].read}

\* the query with limit(1) returns: one of the matching documents, or none
\* (docs |-> 0)
CheckLowStockQuery(m) ==
  /\ m \in monitors
  /\ m.pc = "query"
  /\ \E i \in IF ExistingNotification = {} THEN {0} ELSE ExistingNotification :
       monitors' = (monitors \ {m}) \cup
         {[run |-> m.run, pc |-> "write", items |-> m.items, docs |-> i]}
  /\ UNCHANGED <<dailyReports, errorLog, jobResult, notifications, ledgerVars,
                 handlers, storeVars, cacheVars, clockVars>>

\* the document passed to db.collection("notifications").add
NewNotification(items) ==
  [type |-> "low_stock", title |-> "Alerta de Estoque Baixo",
   message |-> Message(items), items |-> items, read |-> FALSE,
   createdAt |-> now]

\* existingNotification.docs[0].ref.update({ items, message, updatedAt })
UpdateNotification(doc, items) ==
  [k \in DOMAIN doc \cup {"updatedAt"} |->
     CASE k = "items" -> items
       [] k = "message" -> Message(items)
       [] k = "updatedAt" -> now
       [] OTHER -> doc[k]]

\* the notification is created when the query was empty, and the document
\* the query returned is updated otherwise
CheckLowStockWrite(m) ==
  /\ m \in monitors
  /\ m.pc = "write"
  /\ notifications' =
       IF m.docs = 0
         THEN Append(notifications, NewNotification(m.items))
         ELSE [notifications EXCEPT
                 ![m.docs] = UpdateNotification(@, m.items)]
  /\ monitors' = monitors \ {m}
  /\ UNCHANGED <<dailyReports, errorLog, jobResult, ledgerVars, handlers,
                 storeVars, cacheVars, clockVars>>

\* the client marks a notification as read
MarkRead(i) ==
  /\ i \in 1..Len(notifications)
  /\ ~notifications[i].read
  /\ notifications' = [notifications EXCEPT ![i].read = TRUE]
  /\ UNCHANGED <<dailyReports, errorLog, jobResult, monitors, ledgerVars,
                 handlers, storeVars, cacheVars, clockVars>>

(***************************************************************************)
(* Time.                                                                   *)
(***************************************************************************)
Tick ==
  /\ now < MaxTicks * TickMs
  /\ now' = now + TickMs
  /\ UNCHANGED <<reportVars, ledgerVars, handlers, storeVars, cacheVars, today>>

AdvanceDay ==
  /\ today < MaxDay
  /\ today' = today + 1
  /\ UNCHANGED <<reportVars, ledgerVars, handlers, storeVars, cacheVars, now>>

\* the calendar moves on past the last day of the model's ledger, far
\* enough for a report of that day to grow old
AdvancePastLedger ==
  /\ today >= MaxDay
  /\ today < MaxDay + CLEANUP_AGE_DAYS
  /\ today' = today + 1
  /\ UNCHANGED <<reportVars, ledgerVars, handlers, storeVars, cacheVars, now>>

(***************************************************************************)
(* Specifications.                                                         *)
(***************************************************************************)
\* the writer stamps the entry with the current date
Write ==
  \E id \in Ids, afterData \in {e \in Entries : e.data = today} \cup {NoDoc} :
    WriteTransaction(id, afterData)

\* the writer enters or edits an entry dated on any day
WriteDated ==
  \E id \in Ids, afterData \in Entries \cup {NoDoc} :
    WriteTransaction(id, afterData)

\* the writer enters, edits or deletes entries of one material and quantity,
\* stamped with the current date
WriteFerro ==
  \E id \in Ids,
     afterData \in {e \in Entries : /\ e.data = today
                                    /\ e.material = "ferro"
                                    /\ e.quantidade = 3} \cup {NoDoc} :
    WriteTransaction(id, afterData)

\* the writer enters or deletes purchases of 3 units of ferro, stamped with
\* the current date
WritePurchase ==
  \E id \in Ids,
     afterData \in {e \in Entries : /\ e.data = today
                                    /\ e.tipo = "compra"
                                    /\ e.material = "ferro"
                                    /\ e.quantidade = 3} \cup {NoDoc} :
    WriteTransaction(id, afterData)

\* the writer enters one purchase of 3 units of ferro, stamped with the
\* current date
WriteFirstPurchase ==
  /\ ~transactions[1].exists
  /\ nextSeq = 0
  /\ \E afterData \in {e \in Entries : /\ e.data = today
                                       /\ e.tipo = "compra"
                                       /\ e.material = "ferro"
                                       /\ e.quantidade = 3} :
       WriteTransaction(1, afterData)

\* the writer enters, edits or deletes entries, with or without a payment
\* method, stamped with the current date
WritePaid ==
  \E id \in Ids,
     afterData \in {e \in PaidEntries : e.data = today} \cup {NoDoc} :
    WriteTransaction(id, afterData)

\* the entries of the concrete scenario: a purchase of 50 units of ferro for
\* 100 and a sale of 20 units of ferro for 80, both dated day 1
ScenarioPurchase ==
  [exists |-> TRUE, tipo |-> "compra", material |-> "ferro",
   quantidade |-> 50, valorTotal |-> 100, data |-> 1]

ScenarioSale ==
  [exists |-> TRUE, tipo |-> "venda", material |-> "ferro",
   quantidade |-> 20, valorTotal |-> 80, data |-> 1]

\* the writes of the scenario, in order: the purchase is created, the sale
\* is created, the sale is deleted
ScenarioWrites ==
  <<[id |-> 1, afterData |-> ScenarioPurchase],
    [id |-> 2, afterData |-> ScenarioSale],
    [id |-> 2, afterData |-> NoDoc]>>

\* the writer issues the next write of the scenario
WriteScenario ==
  /\ nextSeq < Len(ScenarioWrites)
  /\ IssueWrite(ScenarioWrites[nextSeq + 1].id,
                ScenarioWrites[nextSeq + 1].afterData)

\* the writer enters an entry, enters a second one and then deletes the
\* second one, each stamped with the current date
WriteRoundTrip ==
  \/ /\ nextSeq = 0
     /\ \E afterData \in {e \in Entries : e.data = today} :
          IssueWrite(1, afterData)
  \/ /\ nextSeq = 1
     /\ \E afterData \in {e \in Entries : e.data = today} :
          IssueWrite(2, afterData)
  \/ /\ nextSeq = 2
     /\ IssueWrite(2, NoDoc)

\* the writer enters or deletes purchases of 60 units, stamped with the
\* current date: 60 units lie between half the minimum of ferro and its
\* minimum, and above the minimum of cobre
WriteStock ==
  \E id \in Ids,
     afterData \in {[exists |-> TRUE, tipo |-> "compra", material |-> m,
                     quantidade |-> 60, valorTotal |-> 60 * p,
                     data |-> today] : m \in Materials, p \in Precos}
                   \cup {NoDoc} :
    WriteTransaction(id, afterData)

\* every event is delivered once, in any order, to concurrent invocations; a
\* failed transaction is retried
Next ==
  \/ Write
  \/ \E i \in 1..MaxWrites : Dispatch(i)
  \/ \E h \in handlers : RunTransaction(h)
  \/ \E h \in handlers : RunTransactionFails(h)
  \/ \E h \in handlers : HandlerReturn(h, FALSE)

Spec == Init /\ [][Next]_vars

\* every event is delivered once, in the order of the writes, to one
\* invocation at a time
DispatchNext == handlers = {} /\ Dispatch(1)

NextInOrder ==
  \/ Write
  \/ DispatchNext
  \/ \E h \in handlers : RunTransaction(h)
  \/ \E h \in handlers : HandlerReturn(h, FALSE)

SpecInOrder == Init /\ [][NextInOrder]_vars

\* at-least-once delivery: a handled event may be delivered again
NextReplay ==
  \/ Write
  \/ DispatchNext
  \/ \E h \in handlers : RunTransaction(h)
  \/ \E h \in handlers, redeliver \in BOOLEAN : HandlerReturn(h, redeliver)

SpecReplay == Init /\ [][NextReplay]_vars

\* the handler together with the scheduled reset jobs and the calendar
NextReset ==
  \/ WriteDated
  \/ DispatchNext
  \/ \E h \in handlers : RunTransaction(h)
  \/ \E h \in handlers : HandlerReturn(h, FALSE)
  \/ resetDailyStats
  \/ resetMonthlyStats
  \/ AdvanceDay

SpecReset == Init /\ [][NextReset]_vars

\* the handler together with getLiveSummary calls in the same process
NextCache ==
  \/ Write
  \/ DispatchNext
  \/ \E h \in handlers : RunTransaction(h)
  \/ \E h \in handlers : HandlerReturn(h, FALSE)
  \/ GetLiveSummaryHit
  \/ GetLiveSummaryMiss
  \/ \E c \in calls : FetchLiveSummary(c)
  \/ \E c \in calls : StoreCached(c)
  \/ Tick

SpecCache == Init /\ [][NextCache]_vars

\* the handler with failing transactions, together with getAggregatedReports
\* calls (for the current day) in the same process
NextAbort ==
  \/ WriteFerro
  \/ DispatchNext
  \/ \E h \in handlers : RunTransaction(h)
  \/ \E h \in handlers : RunTransactionFails(h)
  \/ \E h \in handlers : HandlerReturn(h, FALSE)
  \/ GetAggregatedReportsHit(today, today)
  \/ GetAggregatedReportsMiss(today, today)
  \/ \E c \in calls : FetchAggregatedReports(c)
  \/ \E c \in calls : StoreCached(c)

SpecAbort == Init /\ [][NextAbort]_vars

\* the ledger writer, the calendar and the scheduled rollup finalizer
NextRollup ==
  \/ WritePaid
  \/ AdvanceDay
  \/ generateHistoricalDailyReport

SpecRollup == Init /\ [][NextRollup]_vars

\* the ledger writer, the calendar, the rollup finalizer and backfillHistory
\* calls over any range of days
NextBackfill ==
  \/ WritePaid
  \/ AdvanceDay
  \/ generateHistoricalDailyReport
  \/ \E startDate \in Days, endDate \in Days, forceOverwrite \in BOOLEAN :
       backfillHistory(startDate, endDate, forceOverwrite)

SpecBackfill == Init /\ [][NextBackfill]_vars

\* the ledger writer, the calendar, the clock and forced rebuilds over any
\* range of days
NextRebuild ==
  \/ WritePaid
  \/ AdvanceDay
  \/ Tick
  \/ \E startDate \in Days, endDate \in Days :
       backfillHistory(startDate, endDate, TRUE)

SpecRebuild == Init /\ [][NextRebuild]_vars

\* the handler in the order of the writes, the calendar and backfillHistory
\* over any range of days
NextPhase3 ==
  \/ WriteFerro
  \/ DispatchNext
  \/ \E h \in handlers : RunTransaction(h)
  \/ \E h \in handlers : HandlerReturn(h, FALSE)
  \/ AdvanceDay
  \/ \E startDate \in Days, endDate \in Days, forceOverwrite \in BOOLEAN :
       backfillHistory(startDate, endDate, forceOverwrite)

SpecPhase3 == Init /\ [][NextPhase3]_vars

\* the handler in the order of the writes, together with getLiveSummary and
\* getAggregatedReports calls (for the current day) in the same process, and
\* the clock
NextGet ==
  \/ WritePurchase
  \/ DispatchNext
  \/ \E h \in handlers : RunTransaction(h)
  \/ \E h \in handlers : HandlerReturn(h, FALSE)
  \/ GetLiveSummaryHit
  \/ GetLiveSummaryMiss
  \/ \E c \in calls : FetchLiveSummary(c)
  \/ GetAggregatedReportsHit(today, today)
  \/ GetAggregatedReportsMiss(today, today)
  \/ \E c \in calls : FetchAggregatedReports(c)
  \/ \E c \in calls : StoreCached(c)
  \/ Tick

SpecGet == Init /\ [][NextGet]_vars

\* the writes of the scenario, each event delivered once, in any order, to
\* concurrent invocations, while the clock runs; a failed transaction is
\* retried
NextScenario ==
  \/ WriteScenario
  \/ Tick
  \/ \E i \in 1..Len(ScenarioWrites) : Dispatch(i)
  \/ \E h \in handlers : RunTransaction(h)
  \/ \E h \in handlers : RunTransactionFails(h)
  \/ \E h \in handlers : HandlerReturn(h, FALSE)

SpecScenario == Init /\ [][NextScenario]_vars

\* the handler in the order of the writes, the clock, the client that reads
\* notifications and checkLowStock as configured (maxInstances: 1): one
\* invocation at a time
NextMonitor ==
  \/ WriteStock
  \/ DispatchNext
  \/ \E h \in handlers : RunTransaction(h)
  \/ \E h \in handlers : HandlerReturn(h, FALSE)
  \/ Tick
  \/ CheckLowStockStart(1)
  \/ \E m \in monitors : CheckLowStockQuery(m)
  \/ \E m \in monitors : CheckLowStockWrite(m)
  \/ \E i \in 1..MaxRuns : MarkRead(i)

SpecMonitor == Init /\ [][NextMonitor]_vars

\* the same with up to MaxMonitors invocations of checkLowStock in flight
NextMonitorConcurrent ==
  \/ WriteStock
  \/ DispatchNext
  \/ \E h \in handlers : RunTransaction(h)
  \/ \E h \in handlers : HandlerReturn(h, FALSE)
  \/ CheckLowStockStart(MaxMonitors)
  \/ \E m \in monitors : CheckLowStockQuery(m)
  \/ \E m \in monitors : CheckLowStockWrite(m)

SpecMonitorConcurrent == Init /\ [][NextMonitorConcurrent]_vars

\* the operations that write documents: the handler in the order of the
\* writes, the scheduled jobs, the callable jobs and the calendar
NextEngine ==
  \/ WriteFirstPurchase
  \/ DispatchNext
  \/ \E h \in handlers : RunTransaction(h)
  \/ \E h \in handlers : HandlerReturn(h, FALSE)
  \/ AdvanceDay
  \/ AdvancePastLedger
  \/ resetDailyStats
  \/ resetMonthlyStats
  \/ generateHistoricalDailyReport
  \/ \E startDate \in Days, endDate \in Days, forceOverwrite \in BOOLEAN :
       backfillHistory(startDate, endDate, forceOverwrite)
  \/ \E d \in Days, forceOverwrite \in BOOLEAN :
       generateMonthReport(MonthOf(d), forceOverwrite)
  \/ cleanupOldReports
  \/ CheckLowStockStart(1)
  \/ \E m \in monitors : CheckLowStockQuery(m)
  \/ \E m \in monitors : CheckLowStockWrite(m)

SpecEngine == Init /\ [][NextEngine]_vars

\* every operation that runs beside the handler, the reconciliation jobs
\* forced over the whole ledger, and the live-summary query
NextInventory ==
  \/ WriteFirstPurchase
  \/ DispatchNext
  \/ \E h \in handlers : RunTransaction(h)
  \/ \E h \in handlers : HandlerReturn(h, FALSE)
  \/ AdvanceDay
  \/ AdvancePastLedger
  \/ resetDailyStats
  \/ resetMonthlyStats
  \/ generateHistoricalDailyReport
  \/ backfillHistory(1, MaxDay, TRUE)
  \/ generateMonthReport(MonthOf(today), TRUE)
  \/ cleanupOldReports
  \/ CheckLowStockStart(1)
  \/ \E m \in monitors : CheckLowStockQuery(m)
  \/ \E m \in monitors : CheckLowStockWrite(m)
  \/ GetLiveSummaryHit
  \/ GetLiveSummaryMiss
  \/ \E c \in calls : FetchLiveSummary(c)
  \/ \E c \in calls : StoreCached(c)
SpecInventory == Init /\ [][NextInventory]_vars

\* the purchases of the ledger, the calendar, the rollup finalizer and
\* backfillHistory calls over any range of days
NextBatches ==
  \/ WritePurchase
  \/ AdvanceDay
  \/ generateHistoricalDailyReport
  \/ \E startDate \in Days, endDate \in Days, forceOverwrite \in BOOLEAN :
       backfillHistory(startDate, endDate, forceOverwrite)

SpecBatches == Init /\ [][NextBatches]_vars

\* the purchases of the ledger, the clock, backfillHistory calls and
\* getAggregatedReports calls over the days of the model, their fetch in
\* flight while other invocations run
NextCacheRace ==
  \/ WritePurchase
  \/ Tick
  \/ \E startDate \in Days, endDate \in Days, forceOverwrite \in BOOLEAN :
       backfillHistory(startDate, endDate, forceOverwrite)
  \/ GetAggregatedReportsHit(1, MaxDay)
  \/ GetAggregatedReportsMiss(1, MaxDay)
  \/ \E c \in calls : FetchAggregatedReports(c)
  \/ \E c \in calls : StoreCached(c)

SpecCacheRace == Init /\ [][NextCacheRace]_vars

\* the purchases of the ledger, the calendar, and backfillHistory calls over
\* any range of days, run to their end or abandoned between two batches
NextResume ==
  \/ WritePurchase
  \/ AdvanceDay
  \/ \E startDate \in Days, endDate \in Days, forceOverwrite \in BOOLEAN :
       backfillHistory(startDate, endDate, forceOverwrite)
  \/ \E startDate \in Days, endDate \in Days, forceOverwrite \in BOOLEAN,
        committed \in 1..MaxDay :
       backfillHistoryAbandoned(startDate, endDate, forceOverwrite, committed)

SpecResume == Init /\ [][NextResume]_vars

\* an entry is created and deleted after another one was entered; the
\* handler takes the events in the order of the writes, the calendar moves
NextRoundTrip ==
  \/ WriteRoundTrip
  \/ AdvanceDay
  \/ DispatchNext
  \/ \E h \in handlers : RunTransaction(h)
  \/ \E h \in handlers : HandlerReturn(h, FALSE)

SpecRoundTrip == Init /\ [][NextRoundTrip]_vars

(***************************************************************************)
(* Properties.                                                             *)
(***************************************************************************)
\* every issued event has been handled and no invocation is in flight
Quiescent == pending = <<>> /\ handlers = {}

\* the contribution of one ledger document to the stock of material m:
\* +quantity for a purchase, -quantity for a sale, nothing otherwise
SignedQuantity(doc, m) ==
  IF doc.exists /\ doc.material = m
    THEN CASE doc.tipo = "compra" -> doc.quantidade
           [] doc.tipo = "venda" -> -doc.quantidade
           [] OTHER -> 0
    ELSE 0

RECURSIVE SignedSum(_, _)
SignedSum(n, m) ==
  IF n = 0 THEN 0 ELSE SignedSum(n - 1, m) + SignedQuantity(transactions[n], m)

\* C1 (conservation): once every event has been handled, once and in order,
\* the quantity of every material in inventory/current equals the sum over
\* the existing ledger entries of that material of +quantity for a purchase
\* and -quantity for a sale.
C1_Conservation ==
  Quiescent =>
    \A m \in Materials : Field(inventory, m) = SignedSum(NumIds, m)

\* the event of h is an update of a purchase of material m from quantity
\* qBefore to quantity qAfter
PurchaseQuantityUpdate(h, m, qBefore, qAfter) ==
  /\ h.ev.before.exists /\ h.ev.after.exists
  /\ h.ev.before.tipo = "compra" /\ h.ev.after.tipo = "compra"
  /\ h.ev.before.material = m /\ h.ev.after.material = m
  /\ h.ev.before.quantidade = qBefore /\ h.ev.after.quantidade = qAfter

\* C2 (reversal correctness): the transaction of an update event from
\* {purchase, M, 10} to {purchase, M, 3} changes the quantity of M in
\* inventory/current by exactly -7.
C2_ReversalCorrectness ==
  [][\A h \in handlers, m \in Materials :
       (RunTransaction(h) /\ PurchaseQuantityUpdate(h, m, 10, 3))
         => Field(inventory', m) = Field(inventory, m) - 7]_vars

\* C3 (deletion correctness): the transaction of a delete event of a sale of
\* quantity q of material M changes the quantity of M by +q, that of a
\* purchase by -q, and no other material's quantity changes.
C3_DeletionCorrectness ==
  [][\A h \in handlers :
       (RunTransaction(h) /\ ~h.ev.after.exists) =>
         \A m \in Materials :
           IF m = h.ev.before.material
             THEN /\ h.ev.before.tipo = "venda" =>
                       Field(inventory', m) =
                         Field(inventory, m) + h.ev.before.quantidade
                  /\ h.ev.before.tipo = "compra" =>
                       Field(inventory', m) =
                         Field(inventory, m) - h.ev.before.quantidade
             ELSE Field(inventory', m) = Field(inventory, m)]_vars

\* the delete event of a sale has been committed, and it gave back to the
\* stock the quantity the sale's create event had taken
C3_Witness ==
  \E h \in handlers :
    /\ h.pc = "committed"
    /\ ~h.ev.after.exists
    /\ h.ev.before.tipo = "venda"
    /\ Field(inventory, h.ev.before.material) = 0
    /\ reflectedInv = {1, 2}

\* the counter of the number of entries of a kind, and of their value
CountField(tipo) ==
  CASE tipo = "venda" -> "vendasCountMes"
    [] tipo = "compra" -> "comprasCountMes"
    [] tipo = "despesa" -> "despesasCountMes"

TotalField(tipo) ==
  CASE tipo = "venda" -> "totalVendasMes"
    [] tipo = "compra" -> "totalComprasMes"
    [] tipo = "despesa" -> "totalDespesasMes"

\* C4 (merge by summation): the transaction of an update event leaves
\* transacoesHoje and totalTransacoesMes unchanged and, when the kind is
\* unchanged, leaves the kind's count unchanged and changes the kind's value
\* total by after.valorTotal - before.valorTotal.
C4_UpdateMergesBySummation ==
  [][\A h \in handlers :
       (RunTransaction(h) /\ h.ev.before.exists /\ h.ev.after.exists) =>
         /\ Field(liveSummary', "transacoesHoje") =
              Field(liveSummary, "transacoesHoje")
         /\ Field(liveSummary', "totalTransacoesMes") =
              Field(liveSummary, "totalTransacoesMes")
         /\ h.ev.before.tipo = h.ev.after.tipo =>
              /\ Field(liveSummary', CountField(h.ev.after.tipo)) =
                   Field(liveSummary, CountField(h.ev.after.tipo))
              /\ Field(liveSummary', TotalField(h.ev.after.tipo)) =
                   Field(liveSummary, TotalField(h.ev.after.tipo))
                     + h.ev.after.valorTotal - h.ev.before.valorTotal]_vars

\* a snapshot that is absent or an expense
AbsentOrExpense(doc) == doc.exists => doc.tipo = "despesa"

\* C5 (expenses carry no stock): the transaction of the create, update or
\* delete event of an expense entry leaves every quantity of
\* inventory/current unchanged.
C5_ExpenseLeavesInventory ==
  [][\A h \in handlers :
       (RunTransaction(h) /\ AbsentOrExpense(h.ev.before)
                          /\ AbsentOrExpense(h.ev.after)) =>
         \A m \in Materials : Field(inventory', m) = Field(inventory, m)]_vars

Counters ==
  {"transacoesHoje", "vendasHoje", "comprasHoje", "totalTransacoesMes",
   "totalVendasMes", "totalComprasMes", "totalDespesasMes",
   "vendasCountMes", "comprasCountMes", "despesasCountMes"}

\* C7 (replay safety): the transaction of an event that has been handled
\* before changes neither inventory/current nor a counter of
\* reports/live_summary, so that handling an event twice equals handling it
\* once.
C7_ReplaySafety ==
  [][\A h \in handlers :
       (RunTransaction(h) /\ h.ev.deliveries > 0) =>
         /\ \A m \in Materials : Field(inventory', m) = Field(inventory, m)
         /\ \A k \in Counters :
              Field(liveSummary', k) = Field(liveSummary, k)]_vars

\* C8 (order independence): when every event issued has been handled exactly
\* once, in whatever order and interleaving, inventory/current and the
\* counters of reports/live_summary hold the field-wise sum of the events'
\* updates, which does not depend on the order.
C8_OrderIndependence ==
  Quiescent =>
    /\ \A m \in Materials : Field(inventory, m) = Field(issuedInv, m)
    /\ \A k \in Counters : Field(liveSummary, k) = Field(issuedStats, k)

\* two events that touch the same material and the same counters have both
\* been handled
C8_Witness ==
  /\ Quiescent
  /\ reflectedStats = {1, 2}
  /\ Field(liveSummary, "transacoesHoje") = 2
  /\ transactions[1].exists /\ transactions[2].exists
  /\ transactions[1].material = transactions[2].material
  /\ transactions[1].tipo = transactions[2].tipo

\* whether a ledger document is an entry of one of the kinds, dated on one
\* of the days
Counted(doc, tipos, days) ==
  doc.exists /\ doc.tipo \in tipos /\ doc.data \in days

\* the number and the value of the ledger documents 1..n of the kinds and
\* days; every day of the model lies in the current month
RECURSIVE CountUpTo(_, _, _)
CountUpTo(n, tipos, days) ==
  IF n = 0 THEN 0
  ELSE CountUpTo(n - 1, tipos, days)
         + (IF Counted(transactions[n], tipos, days) THEN 1 ELSE 0)

RECURSIVE ValueUpTo(_, _, _)
ValueUpTo(n, tipos, days) ==
  IF n = 0 THEN 0
  ELSE ValueUpTo(n - 1, tipos, days)
         + (IF Counted(transactions[n], tipos, days)
              THEN transactions[n].valorTotal ELSE 0)

CountOf(tipos, days) == CountUpTo(NumIds, tipos, days)

ValueOf(tipos, days) == ValueUpTo(NumIds, tipos, days)

\* with every event handled and no reset so far, the 'today' counters hold
\* the contributions of the entries dated today, the month counters those of
\* the entries of the month
CountersMatchLedger ==
  /\ (Quiescent /\ today = 1 /\ "lastDailyReset" \notin DOMAIN liveSummary) =>
       /\ Field(liveSummary, "transacoesHoje") = CountOf(Tipos, {today})
       /\ Field(liveSummary, "vendasHoje") = ValueOf({"venda"}, {today})
       /\ Field(liveSummary, "comprasHoje") = ValueOf({"compra"}, {today})
  /\ (Quiescent /\ "lastMonthlyReset" \notin DOMAIN liveSummary) =>
       /\ Field(liveSummary, "totalTransacoesMes") = CountOf(Tipos, Days)
       /\ \A t \in Tipos :
            /\ Field(liveSummary, CountField(t)) = CountOf({t}, Days)
            /\ Field(liveSummary, TotalField(t)) = ValueOf({t}, Days)

\* the event concerns only snapshots dated on another day than today
DatedOutsideToday(ev) ==
  /\ ev.before.exists => ev.before.data # today
  /\ ev.after.exists => ev.after.data # today

\* C9 (live summary invariant): the 'today' and month counters equal the
\* contributions of the entries dated in the current day and month since the
\* last reset; the transaction of an event whose entry is dated outside the
\* current day leaves the 'today' counters unchanged; no counter is negative.
C9_LiveSummaryInvariant ==
  [][/\ CountersMatchLedger'
     /\ \A h \in handlers :
          (RunTransaction(h) /\ DatedOutsideToday(h.ev)) =>
            \A k \in {"transacoesHoje", "vendasHoje", "comprasHoje"} :
              Field(liveSummary', k) = Field(liveSummary, k)
     /\ \A k \in Counters : Field(liveSummary', k) >= 0]_vars

\* C10 (cache invalidation): once the handler of a ledger mutation has
\* returned, getLiveSummary does not answer from a cache entry stored before
\* the mutation was committed, however young the entry is.
C10_CacheInvalidation ==
  [][(GetLiveSummaryHit /\ \A h \in handlers : h.pc # "committed") =>
       memoryCache[LiveSummaryKey].timestamp >=
         Field(liveSummary, "updatedAt")]_vars


\* the change of every field of a daily_reports document that an event calls
\* for: the reversal of before plus the forward contribution of after
DailyDeltas(beforeData, afterData) ==
  Accumulate(IF beforeData.exists THEN ReversalDaily(beforeData)
                                  ELSE EmptyObject,
             IF afterData.exists THEN ForwardDaily(afterData)
                                 ELSE EmptyObject)

\* C11 (daily aggregate deltas): when the handler of an event returns, having
\* met no store failure, a document of daily_reports has received the
\* event's deltas: the reversal of before and the forward contribution of
\* after on totalTransactions, the kind's total and count, the material's
\* breakdown and the payment method's count and total.
C11_DailyAggregateDeltas ==
  [][\A h \in handlers :
       HandlerReturn(h, FALSE) =>
         \E d \in Days :
           \A k \in DOMAIN DailyDeltas(h.ev.before, h.ev.after) :
             Field(DailyReport(dailyReports', d), k) =
               Field(DailyReport(dailyReports, d), k)
                 + DailyDeltas(h.ev.before, h.ev.after)[k]]_vars

\* C12 (keyed by the entry's own date): handling the update or delete event
\* of an entry dated on a past day changes that day's daily_reports document
\* and leaves the current day's document unchanged.
C12_KeyedByEntryDate ==
  [][\A h \in handlers :
       (HandlerReturn(h, FALSE) /\ h.ev.before.exists
                                /\ h.ev.before.data < today) =>
         /\ DailyReport(dailyReports', h.ev.before.data) #
              DailyReport(dailyReports, h.ev.before.data)
         /\ DailyReport(dailyReports', today) =
              DailyReport(dailyReports, today)]_vars

\* C13 (best-effort isolation): when the daily_report block fails after the
\* transaction has committed, the error is logged once and not propagated:
\* the invocation ends, its event is not queued for another delivery, and
\* inventory/current and reports/live_summary keep the event's increments.
C13_BestEffortIsolation ==
  [][\A h \in handlers :
       (HandlerReturn(h, FALSE) /\ DailyReportBlock(h).threw) =>
         /\ errorLog' = errorLog + 1
         /\ handlers' = handlers \ {h}
         /\ pending' = pending
         /\ inventory' = inventory /\ liveSummary' = liveSummary
         /\ h.ev.seq \in reflectedInv' \cap reflectedStats']_vars

\* both events have been handled to the end, the daily_report block failed
\* and was logged in both invocations, and the stock holds their increments
C13_Witness ==
  /\ Quiescent
  /\ errorLog = 2
  /\ reflectedInv = {1, 2}
  /\ \E m \in Materials : Field(inventory, m) # 0

DayIds(d) ==
  {id \in Ids : transactions[id].exists /\ transactions[id].data = d}

\* the value and the number of the entries among ids that satisfy a test
\* given as the set of the ids that pass it
ValueOfIds(ids) == SumOver([id \in Ids |-> transactions[id].valorTotal], ids)

OfKind(ids, tipo) == {id \in ids : transactions[id].tipo = tipo}

OfMaterial(ids, m) == {id \in ids : transactions[id].material = m}

OfPayment(ids, fp) ==
  {id \in ids : ToLowerCase(FormaPagamento(transactions[id])) = fp}

QuantityOfIds(ids) ==
  SumOver([id \in Ids |-> transactions[id].quantidade], ids)

\* the aggregate of day d recomputed from the ledger: totals and counts per
\* kind, profit = sales - purchases - expenses, the breakdown per material
\* present (sales, purchases, net quantity, profit, count) and per payment
\* method present (count, total)
Recomputed(d) ==
  LET ids == DayIds(d)
      mats == {transactions[id].material : id \in ids}
      fps == {ToLowerCase(FormaPagamento(transactions[id])) : id \in ids}
      MatValue(m, f) ==
        LET of == OfMaterial(ids, m) IN
        CASE f = "vendas" -> ValueOfIds(OfKind(of, "venda"))
          [] f = "compras" -> ValueOfIds(OfKind(of, "compra"))
          [] f = "quantidade" -> QuantityOfIds(OfKind(of, "compra"))
                                   - QuantityOfIds(OfKind(of, "venda"))
          [] f = "lucro" -> ValueOfIds(OfKind(of, "venda"))
                              - ValueOfIds(OfKind(of, "compra"))
          [] f = "transacoes" -> Cardinality(of)
      PayValue(fp, f) ==
        IF f = "count" THEN Cardinality(OfPayment(ids, fp))
                       ELSE ValueOfIds(OfPayment(ids, fp))
  IN (<<"totalSales">> :> ValueOfIds(OfKind(ids, "venda"))) @@
     (<<"totalPurchases">> :> ValueOfIds(OfKind(ids, "compra"))) @@
     (<<"totalExpenses">> :> ValueOfIds(OfKind(ids, "despesa"))) @@
     (<<"totalProfit">> :> ValueOfIds(OfKind(ids, "venda"))
                             - ValueOfIds(OfKind(ids, "compra"))
                             - ValueOfIds(OfKind(ids, "despesa"))) @@
     (<<"totalTransactions">> :> Cardinality(ids)) @@
     (<<"salesCount">> :> Cardinality(OfKind(ids, "venda"))) @@
     (<<"purchasesCount">> :> Cardinality(OfKind(ids, "compra"))) @@
     (<<"expensesCount">> :> Cardinality(OfKind(ids, "despesa"))) @@
     [k \in {<<"materialStats", m, f>> :
               m \in mats,
               f \in {"vendas", "compras", "quantidade", "lucro",
                      "transacoes"}} |-> MatValue(k[2], k[3])] @@
     [k \in {<<"paymentStats", fp, f>> :
               fp \in fps, f \in {"count", "total"}} |-> PayValue(k[2], k[3])]

\* the fields of a daily_reports document that carry aggregates
AggregateFields(doc) ==
  [k \in DOMAIN doc \ {<<"date">>, <<"dateString">>, <<"generatedAt">>,
                       <<"generatedBy">>, <<"updatedAt">>} |-> doc[k]]

\* C15 (the finalizer does not overwrite): a run of the rollup finalizer
\* that finds a daily_reports document for yesterday issues no query on the
\* ledger, writes nothing and leaves every daily_reports document unchanged.
C15_FinalizerNoOverwrite ==
  [][(generateHistoricalDailyReport /\ (today - 1) \in DOMAIN dailyReports)
       => /\ dailyReports' = dailyReports
          /\ jobResult'.queries = 0
          /\ jobResult'.writes = 0]_vars

\* the finalizer has just skipped yesterday although the ledger entries of
\* yesterday no longer add up to yesterday's document
C15_Witness ==
  /\ jobResult.job = "generateHistoricalDailyReport"
  /\ jobResult.writes = 0
  /\ (today - 1) \in DOMAIN dailyReports
  /\ AggregateFields(dailyReports[today - 1]) # Recomputed(today - 1)

\* C16 (the finalizer's record): a run of the rollup finalizer that finds
\* no daily_reports document for yesterday writes exactly one document,
\* yesterday's, whose aggregate fields equal the recomputation from the
\* ledger entries dated yesterday, with profit = sales - purchases -
\* expenses; every other document is unchanged.
C16_FinalizerRecord ==
  [][(generateHistoricalDailyReport /\ (today - 1) \notin DOMAIN dailyReports)
       => /\ DOMAIN dailyReports' = DOMAIN dailyReports \cup {today - 1}
          /\ \A d \in DOMAIN dailyReports : dailyReports'[d] = dailyReports[d]
          /\ jobResult'.writes = 1
          /\ AggregateFields(dailyReports'[today - 1]) =
               Recomputed(today - 1)]_vars

\* the finalizer has written yesterday's document from a scan of more than
\* one page: two entries of different kinds, one of them an expense
C16_Witness ==
  /\ jobResult.job = "generateHistoricalDailyReport"
  /\ jobResult.writes = 1
  /\ jobResult.queries = 2 \div BATCH_SIZE + 1
  /\ (today - 1) \in DOMAIN dailyReports
  /\ dailyReports[today - 1][<<"totalTransactions">>] = 2
  /\ dailyReports[today - 1][<<"expensesCount">>] = 1
  /\ dailyReports[today - 1][<<"totalProfit">>] < 0

\* the calendar dates with at least one ledger entry dated in [start, end]
DatesWithEntries(start, end) ==
  {transactions[id].data :
     id \in {i \in Ids : /\ transactions[i].exists
                         /\ start <= transactions[i].data
                         /\ transactions[i].data <= end}}

\* C17 (forced reconciliation restores the invariant): after a run of
\* backfillHistory with forceOverwrite = true over [startDate, endDate],
\* every daily_reports document whose date lies in the range equals the
\* recomputation from the ledger entries dated that day; a day whose entries
\* have all been deleted holds no document with their totals.
C17_ForcedReconciliation ==
  [][\A startDate \in Days, endDate \in Days :
       backfillHistory(startDate, endDate, TRUE) =>
         \A d \in DOMAIN dailyReports' :
           (startDate <= d /\ d <= endDate) =>
             AggregateFields(dailyReports'[d]) = Recomputed(d)]_vars

\* the last job was a run of backfillHistory with the given policy that
\* repeated the run before it: same range, same policy, no ledger write in
\* between
RepeatedRun(forceOverwrite) ==
  /\ jobResult.job = "backfillHistory"
  /\ jobResult.forceOverwrite = forceOverwrite
  /\ jobResult.repeated

\* the next step is a run of backfillHistory that repeats the last job
RepeatsLastRun(startDate, endDate, forceOverwrite) ==
  /\ backfillHistory(startDate, endDate, forceOverwrite)
  /\ jobResult'.repeated

\* C18 (idempotent backfill): a run of backfillHistory with forceOverwrite =
\* false that follows a run with the same range and policy, with no ledger
\* write in between, leaves daily_reports as the first run left it, creates
\* no day and counts every date of the range that has entries as skipped.
C18_IdempotentBackfill ==
  [][\A startDate \in Days, endDate \in Days :
       RepeatsLastRun(startDate, endDate, FALSE) =>
         /\ dailyReports' = dailyReports
         /\ jobResult'.daysCreated = 0
         /\ jobResult'.daysSkipped =
              Cardinality(DatesWithEntries(startDate, endDate))]_vars

\* a second run without overwrite has skipped the two days of its range
C18_Witness ==
  /\ RepeatedRun(FALSE)
  /\ jobResult.daysSkipped = 2
  /\ jobResult.totalTransactionsProcessed = 2

\* C19 as stated (forced rebuild determinism): a run of backfillHistory with
\* forceOverwrite = true that follows a run with the same range and policy,
\* with no ledger write in between, leaves every daily_reports document
\* identical to what the first run wrote.
C19_ForcedRebuildIdentical ==
  [][\A startDate \in Days, endDate \in Days :
       RepeatsLastRun(startDate, endDate, TRUE) =>
         dailyReports' = dailyReports]_vars

\* a daily_reports document without its generation time
WithoutGeneratedAt(doc) ==
  [k \in DOMAIN doc \ {<<"generatedAt">>} |-> doc[k]]

\* C19 as amended: the second forced run leaves every daily_reports document
\* identical to what the first run wrote in every field other than
\* generatedAt, which holds the time of the run that wrote the document.
C19_ForcedRebuildDeterminism ==
  [][\A startDate \in Days, endDate \in Days :
       RepeatsLastRun(startDate, endDate, TRUE) =>
         /\ DOMAIN dailyReports' = DOMAIN dailyReports
         /\ \A d \in DOMAIN dailyReports :
              /\ WithoutGeneratedAt(dailyReports'[d]) =
                   WithoutGeneratedAt(dailyReports[d])
              /\ dailyReports'[d][<<"generatedAt">>] \in
                   {dailyReports[d][<<"generatedAt">>], now}]_vars

\* a second forced run, later than the first one, has rewritten a document
\* built from two entries
C19_Witness ==
  /\ RepeatedRun(TRUE)
  /\ jobResult.daysCreated >= 1
  /\ jobResult.totalTransactionsProcessed = 2
  /\ \E d \in DOMAIN dailyReports :
       /\ dailyReports[d][<<"generatedAt">>] = now
       /\ now > 0

\* C20 (skip-existing policy and the returned counts): a run of
\* backfillHistory with forceOverwrite = false leaves every daily_reports
\* document that exists unchanged, counts as skipped the dates of its range
\* that have entries and a document, and returns daysCreated + daysSkipped
\* equal to the number of dates with an entry in the range and
\* totalTransactionsProcessed equal to the number of entries in the range.
C20_SkipExistingCounts ==
  [][\A startDate \in Days, endDate \in Days :
       backfillHistory(startDate, endDate, FALSE) =>
         /\ \A d \in DOMAIN dailyReports : dailyReports'[d] = dailyReports[d]
         /\ jobResult'.daysSkipped =
              Cardinality(DatesWithEntries(startDate, endDate)
                            \cap DOMAIN dailyReports)
         /\ jobResult'.daysCreated + jobResult'.daysSkipped =
              Cardinality(DatesWithEntries(startDate, endDate))
         /\ jobResult'.totalTransactionsProcessed =
              Len(TransactionsQuery(startDate, endDate))]_vars

\* a run without overwrite over two days with entries has skipped the day
\* that had a document and created the other day's
C20_Witness ==
  /\ jobResult.job = "backfillHistory"
  /\ ~jobResult.forceOverwrite
  /\ jobResult.daysSkipped = 1
  /\ jobResult.daysCreated = 1
  /\ jobResult.totalTransactionsProcessed = 2

\* the monthly counters of live_summary, each with the daily_reports field
\* it sums
MonthlyCounters ==
  {<<"totalVendasMes", <<"totalSales">>>>,
   <<"totalComprasMes", <<"totalPurchases">>>>,
   <<"totalDespesasMes", <<"totalExpenses">>>>,
   <<"vendasCountMes", <<"salesCount">>>>,
   <<"comprasCountMes", <<"purchasesCount">>>>,
   <<"despesasCountMes", <<"expensesCount">>>>,
   <<"totalTransacoesMes", <<"totalTransactions">>>>}

\* the counters of live_summary for the current day
TodayCounters == {"transacoesHoje", "vendasHoje", "comprasHoje"}

\* the sum of a field over the documents of days 1..n that belong to the
\* current calendar month
RECURSIVE MonthSumUpTo(_, _, _)
MonthSumUpTo(reports, path, n) ==
  IF n = 0 THEN 0
  ELSE MonthSumUpTo(reports, path, n - 1) +
       (IF n \in DOMAIN reports /\ MonthOf(n) = MonthOf(today)
          THEN Field(reports[n], path) ELSE 0)

\* the step is a completed run of backfillHistory
BackfillRan ==
  /\ jobResult'.runs = jobResult.runs + 1
  /\ jobResult'.job = "backfillHistory"

\* C21 (Phase 3 of backfillHistory): a run of backfillHistory sets each
\* monthly counter of live_summary to the sum of the corresponding field over
\* the daily_reports documents dated in the current calendar month, and
\* leaves the counters of the current day as they were.
C21_Phase3MonthlyCounters ==
  [][BackfillRan =>
       /\ \A c \in MonthlyCounters :
            /\ c[1] \in DOMAIN liveSummary'
            /\ liveSummary'[c[1]] = MonthSumUpTo(dailyReports', c[2], MaxDay)
       /\ \A k \in TodayCounters :
            /\ k \in DOMAIN liveSummary' <=> k \in DOMAIN liveSummary
            /\ k \in DOMAIN liveSummary =>
                 liveSummary'[k] = liveSummary[k]]_vars

\* a run on day 2 has found documents of two months: the monthly sales hold
\* the current month's document only, and the day counter still holds what
\* the handler added for both sales
C21_Witness ==
  /\ jobResult.job = "backfillHistory"
  /\ today = 2
  /\ {1, 2} \subseteq DOMAIN dailyReports
  /\ dailyReports[1][<<"totalSales">>] = 24
  /\ Field(liveSummary, "totalVendasMes") = 24
  /\ Field(liveSummary, "totalTransacoesMes") = 1
  /\ Field(liveSummary, "vendasHoje") = 48

\* the days of the model that belong to the current calendar month
MonthDays == {d \in Days : MonthOf(d) = MonthOf(today)}

\* C30 (backfill keeps the live month counters right): when a run of
\* backfillHistory completes with every ledger event handled and none in
\* flight, whatever its range and its forceOverwrite, the monthly counters
\* of live_summary equal the contributions of the ledger entries that exist
\* and are dated in the current calendar month.
C30_BackfillKeepsMonthCounters ==
  [][(BackfillRan /\ Quiescent) =>
       /\ Field(liveSummary', "totalTransacoesMes") = CountOf(Tipos, MonthDays)
       /\ \A t \in Tipos :
            /\ Field(liveSummary', CountField(t)) = CountOf({t}, MonthDays)
            /\ Field(liveSummary', TotalField(t)) = ValueOf({t}, MonthDays)]_vars

\* the Map holds an entry for the key that is younger than the time-to-live
Younger(key) ==
  /\ key \in DOMAIN memoryCache
  /\ now - memoryCache[key].timestamp < CACHE_TTL

\* the call answers from the Map: the stored value is returned, no fetch
\* function is invoked and the Map is left as it was
ServedFromCache(key) ==
  /\ Younger(key)
  /\ response' = [served |-> "cache", data |-> memoryCache[key].data]
  /\ calls' = calls
  /\ memoryCache' = memoryCache

\* the call invokes its fetch function: the key has no entry younger than
\* the time-to-live and one invocation of the fetch function is in flight
InvokesFetch(key) ==
  /\ ~Younger(key)
  /\ \E c \in calls' \ calls : c.key = key /\ c.pc = "fetch"
  /\ Cardinality(calls') = Cardinality(calls) + 1

\* C26 (getCachedData): a call whose key has an entry younger than CACHE_TTL
\* returns the stored value without invoking the fetch function; any other
\* call invokes the fetch function once, stores its result under the key
\* with the current time in place of any older entry, and returns the
\* result.
C26_CacheGet ==
  [][/\ GetLiveSummaryHit => ServedFromCache(LiveSummaryKey)
     /\ GetAggregatedReportsHit(today, today) =>
          ServedFromCache(AggregatedReportsKey(today, today))
     /\ GetLiveSummaryMiss => InvokesFetch(LiveSummaryKey)
     /\ GetAggregatedReportsMiss(today, today) =>
          InvokesFetch(AggregatedReportsKey(today, today))
     /\ \A c \in calls :
          /\ FetchLiveSummary(c) =>
               calls' = (calls \ {c}) \cup
                 {[key |-> c.key, pc |-> "store", data |-> LiveSummaryData]}
          /\ StoreCached(c) =>
               /\ c.pc = "store"
               /\ memoryCache'[c.key] = [data |-> c.data, timestamp |-> now]
               /\ \A k \in DOMAIN memoryCache \ {c.key} :
                    k \in DOMAIN memoryCache' /\
                    memoryCache'[k] = memoryCache[k]
               /\ response' = [served |-> "fetch", data |-> c.data]
               /\ calls' = calls \ {c}]_vars

\* a call has replaced an expired entry of getLiveSummary by a newly fetched
\* value: the entry is stamped with the present time, two ticks after the
\* first store, and holds the summary written since
C26_Witness ==
  /\ response.served = "fetch"
  /\ now = CACHE_TTL
  /\ LiveSummaryKey \in DOMAIN memoryCache
  /\ memoryCache[LiveSummaryKey].timestamp = now
  /\ memoryCache[LiveSummaryKey].data = liveSummary
  /\ Field(liveSummary, "updatedAt") = TickMs
  /\ calls = {}

\* key.startsWith(prefix), character by character
HasPrefix(key, prefix) ==
  /\ Len(key) >= Len(prefix)
  /\ \A i \in 1..Len(prefix) : key[i] = prefix[i]

\* C27 (invalidateCache): the invalidateCache calls of the change handler
\* ("reports_", "stats", "inventory") remove every entry whose key starts
\* with one of the prefixes and leave every other entry with the value and
\* the time it was stored with.
C27_InvalidateByPrefix ==
  [][\A h \in handlers :
       HandlerReturn(h, FALSE) =>
         /\ DOMAIN memoryCache' =
              {k \in DOMAIN memoryCache :
                 \A p \in {PrefixReports, PrefixStats, PrefixInventory} :
                   ~HasPrefix(k, p)}
         /\ \A k \in DOMAIN memoryCache' :
              memoryCache'[k] = memoryCache[k]]_vars

\* the handler of a write has returned while the Map held an entry of
\* getLiveSummary stored before the write was committed: the entry is still
\* there, and no entry of getAggregatedReports is
C27_Witness ==
  /\ Quiescent
  /\ errorLog >= 1
  /\ DOMAIN memoryCache = {LiveSummaryKey}
  /\ memoryCache[LiveSummaryKey].timestamp < Field(liveSummary, "updatedAt")

\* the two entries have been created and their events handled: the stock of
\* ferro is 30, the purchases total has grown by 100 and the sales total by
\* 80 (both from nothing)
AfterBothCreated ==
  (Quiescent /\ nextSeq = 2) =>
    /\ Field(inventory, "ferro") = 30
    /\ Field(liveSummary, "totalComprasMes") = 100
    /\ Field(liveSummary, "totalVendasMes") = 80

\* the sale has been deleted and every event handled: the stock of ferro is
\* `stock` and the sales total is back to its value before the sale
AfterSaleDeleted(stock) ==
  (Quiescent /\ nextSeq = 3) =>
    /\ Field(inventory, "ferro") = stock
    /\ Field(liveSummary, "totalComprasMes") = 100
    /\ Field(liveSummary, "totalVendasMes") = 0

\* C28 as stated (concrete scenario): the purchase {ferro, 50, 100} and the
\* sale {ferro, 20, 80} yield a stock of 30 with the purchases total up by
\* 100 and the sales total up by 80; deleting the sale then yields a stock
\* of 10 and the sales total of before the sale.
C28_ScenarioStockTen == AfterBothCreated /\ AfterSaleDeleted(10)

\* C28 as amended: deleting the sale then yields a stock of 50, the 20 units
\* of the sale being added back, and the sales total of before the sale.
C28_ScenarioStockFifty == AfterBothCreated /\ AfterSaleDeleted(50)

\* the three writes of the scenario have been handled
C28_Witness ==
  /\ Quiescent
  /\ nextSeq = 3
  /\ reflectedInv = {1, 2, 3}
  /\ transactions[1] = ScenarioPurchase
  /\ ~transactions[2].exists
  /\ inventory = [ferro |-> 50]

\* the unread notifications of type low_stock
UnreadLowStock(docs) ==
  {i \in 1..Len(docs) : docs[i].type = "low_stock" /\ ~docs[i].read}

\* C22 (dedup notification): with one invocation of checkLowStock at a
\* time, no more than one unread low_stock notification ever exists, and a
\* run that finds low-stock items while an unread notification exists
\* creates no document and leaves that notification, still the only unread
\* one, with the items and the message of this run.
C22_DedupNotification ==
  [][/\ Cardinality(UnreadLowStock(notifications')) <= 1
     /\ \A m \in monitors :
          (CheckLowStockWrite(m) /\ UnreadLowStock(notifications) # {}) =>
            /\ Len(notifications') = Len(notifications)
            /\ UnreadLowStock(notifications') = UnreadLowStock(notifications)
            /\ \A i \in 1..Len(notifications) :
                 IF i \in UnreadLowStock(notifications)
                   THEN /\ notifications'[i].items = m.items
                        /\ notifications'[i].message[1] =
                             Cardinality(m.items)
                        /\ notifications'[i].createdAt =
                             notifications[i].createdAt
                   ELSE notifications'[i] = notifications[i]]_vars

\* the second run has updated, later, the notification that the first run
\* created, and it lists two materials
C22_Witness ==
  /\ jobResult.runs = 2
  /\ monitors = {}
  /\ Len(notifications) = 1
  /\ ~notifications[1].read
  /\ "updatedAt" \in DOMAIN notifications[1]
  /\ notifications[1].createdAt < notifications[1].updatedAt
  /\ Cardinality(notifications[1].items) = 2

\* C23 (at most one unread low-stock notification): in every reachable
\* state at most one unread notification of type low_stock exists, also when
\* invocations of checkLowStock overlap.
C23_AtMostOneUnread == Cardinality(UnreadLowStock(notifications)) <= 1

\* the level the claim gives a material whose stock is q and whose minimum
\* is min: "critico" below half the minimum, "baixo" from there up to the
\* minimum, not listed ("none") above it
ExpectedNivel(q, min) ==
  IF 2 * q < min THEN "critico" ELSE IF q <= min THEN "baixo" ELSE "none"

\* the level the list gives a material, looked up under the material's name
\* or under the name of its field; "none" when it is not listed
ListedNivel(items, m) ==
  LET found == {it \in items : it.material \in {<<m>>, InventoryField(m)}}
  IN IF found = {} THEN "none" ELSE (CHOOSE it \in found : TRUE).nivel

\* C29 (stock classification): for every material of inventory/current,
\* with the material's configured minimum (10 when none is configured) and
\* its stock, checkLowStock lists the material as "critico" iff the stock is
\* below half the minimum, as "baixo" iff it lies between half the minimum
\* and the minimum, and does not list it iff the stock exceeds the minimum.
C29_StockClassification ==
  \A m \in DOMAIN inventory :
    ListedNivel(lowStockItems, m) =
      ExpectedNivel(inventory[m], MinLevelOf(<<m>>))

\* the daily aggregates of the days before the current one
PastReports == {d \in DOMAIN dailyReports : d < today}

\* the step leaves the daily aggregate of day d as it was
ReportUnchanged(d) ==
  /\ d \in DOMAIN dailyReports'
  /\ dailyReports'[d] = dailyReports[d]

\* the step is a run of backfillHistory or generateMonthReport with
\* forceOverwrite = true
ForcedReconciliation ==
  /\ jobResult'.runs = jobResult.runs + 1
  /\ jobResult'.job \in {"backfillHistory", "generateMonthReport"}
  /\ jobResult'.forceOverwrite

\* the step is a run of cleanupOldReports that deletes the aggregate of day
\* d, dated before the cutoff of the run
CleanupRemoved(d) ==
  /\ jobResult'.runs = jobResult.runs + 1
  /\ jobResult'.job = "cleanupOldReports"
  /\ d < today - CLEANUP_AGE_DAYS
  /\ d \notin DOMAIN dailyReports'

\* C24 (as stated): a daily aggregate of a past date, once it exists, is
\* modified or deleted by no step other than a reconciliation run with
\* forceOverwrite = true; the handler, the rollup, the resets, the stock
\* monitor and cleanupOldReports leave it unchanged
C24_PastReportImmutable ==
  [][\A d \in PastReports : ReportUnchanged(d) \/ ForcedReconciliation]_vars

\* C24 (amended): a daily aggregate of a past date, once it exists, is
\* modified by no step other than a reconciliation run with
\* forceOverwrite = true, and is deleted only by cleanupOldReports, which
\* deletes the aggregates dated before its cutoff
C24_PastReportImmutableUntilCleanup ==
  [][\A d \in PastReports :
       \/ ReportUnchanged(d)
       \/ ForcedReconciliation
       \/ CleanupRemoved(d)]_vars

\* cleanupOldReports has run and deleted the aggregate of a past date
C24_Witness ==
  /\ jobResult.job = "cleanupOldReports"
  /\ jobResult.removed >= 1

\* the step is the transaction of a handler: the handler moves from its
\* transaction to the committed state
InTransaction ==
  \E h \in handlers :
    /\ h.pc = "txn"
    /\ handlers' = (handlers \ {h}) \cup {[h EXCEPT !.pc = "committed"]}

\* C25: the stock document changes only in a step that is the transaction of
\* the handler; the rollup, backfillHistory, generateMonthReport, the resets,
\* checkLowStock, cleanupOldReports and the queries leave it unchanged
C25_InventoryOnlyInTransaction ==
  [][inventory' # inventory => InTransaction]_vars

\* the stock document holds a purchase, and since then two jobs, a reset, the
\* stock monitor and a query have run
C25_Witness ==
  /\ inventory # EmptyObject
  /\ jobResult.runs = MaxRuns
  /\ "lastDailyReset" \in DOMAIN liveSummary
  /\ Len(notifications) >= 1
  /\ response.served = "fetch"

\* the concatenation of the sequences of a sequence
RECURSIVE Flatten(_)
Flatten(seqs) ==
  IF seqs = <<>> THEN <<>> ELSE Head(seqs) \o Flatten(Tail(seqs))

\* the dates Phase 2 of the run does not skip: the dates of the range with
\* entries that have no aggregate yet, or all of them when forced
NonSkippedDates ==
  {d \in DatesWithEntries(jobResult'.startDate, jobResult'.endDate) :
     jobResult'.forceOverwrite \/ d \notin DOMAIN dailyReports}

InRange(start, end) ==
  {id \in Ids : /\ transactions[id].exists
                /\ start <= transactions[id].data
                /\ transactions[id].data <= end}

\* how many times the scan passes the document id to forEach
Occurrences(seen, id) == Cardinality({i \in 1..Len(seen) : seen[i] = id})

\* the scan of [start, end] ends after one query more than the full pages
\* of the range and passes every entry of the range once, no other entry
ScanExact(start, end) ==
  LET docs == TransactionsQuery(start, end)
      scan == ScanLoop(docs, 0, <<>>, 0)
  IN /\ scan.queries = Len(docs) \div BATCH_SIZE + 1
     /\ \A id \in Ids :
          Occurrences(scan.seen, id) =
            IF id \in InRange(start, end) THEN 1 ELSE 0

\* the step is a run of the rollup finalizer that scans the ledger
RollupScanned ==
  /\ jobResult'.runs = jobResult.runs + 1
  /\ jobResult'.job = "generateHistoricalDailyReport"
  /\ jobResult'.writes = 1

\* C32: the paginated scan of the rollup finalizer and of backfillHistory
\* ends on every ledger and accumulates every entry of the range exactly
\* once, also when the range holds no entry or a whole number of pages: the
\* finalizer counts the entries of yesterday, backfillHistory the entries of
\* its range
C32_ScanExactlyOnce ==
  [][/\ \A start \in Days, end \in Days : ScanExact(start, end)
     /\ RollupScanned =>
          /\ jobResult'.queries =
               Cardinality(InRange(today - 1, today - 1)) \div BATCH_SIZE + 1
          /\ dailyReports'[today - 1][<<"totalTransactions">>] =
               Cardinality(InRange(today - 1, today - 1))
     /\ BackfillRan =>
          LET ids == InRange(jobResult'.startDate, jobResult'.endDate)
              dates == {transactions[id].data : id \in ids}
          IN /\ jobResult'.totalTransactionsProcessed = Cardinality(ids)
             /\ jobResult'.forceOverwrite =>
                  \A d \in dates :
                    dailyReports'[d][<<"totalTransactions">>] =
                      Cardinality(InRange(d, d))]_vars

\* a forced backfillHistory has scanned a range of more than one page
C32_Witness ==
  /\ jobResult.job = "backfillHistory"
  /\ jobResult.totalTransactionsProcessed > BATCH_SIZE
  /\ jobResult.forceOverwrite

\* C33: the cache is safe under concurrent invocations: a getAggregatedReports
\* call answered from the cache returns the daily aggregates as they are,
\* never the value a fetch read before a backfillHistory run changed them
\* and invalidated the key while that fetch was in flight
C33_CacheSafeUnderConcurrency ==
  [][GetAggregatedReportsHit(1, MaxDay) =>
       response'.data = AggregatedReportsData(1, MaxDay)]_vars

\* the record the rollup finalizer accumulates for the entries dated d
RollupRecord(d) ==
  LET scan == ScanLoop(TransactionsQuery(d, d), 0, <<>>, 0)
      scanned == RollupFold(NewStats(d), scan.seen, 1)
  IN Assign(scanned, <<"totalProfit">> :> TotalProfit(scanned))

\* the record Phases 1 and 2 of backfillHistory accumulate for day d in a
\* run over [startDate, endDate]
BackfillRecord(startDate, endDate, d) ==
  LET scan == ScanLoop(TransactionsQuery(startDate, endDate), 0, <<>>, 0)
      scanned == BackfillFold(EmptyObject, scan.seen, 1)[d]
  IN Assign(scanned, <<"totalProfit">> :> TotalProfit(scanned))

\* C34: for the entries of one day, the record of the rollup finalizer and
\* the record backfillHistory accumulates for that day agree on every
\* total, count, per-material field, per-payment field and on the profit;
\* each job writes the record the other would accumulate
C34_RollupEqualsBackfill ==
  [][/\ \A startDate \in Days, endDate \in Days :
          \A d \in DatesWithEntries(startDate, endDate) :
            AggregateFields(BackfillRecord(startDate, endDate, d)) =
              AggregateFields(RollupRecord(d))
     /\ (RollupScanned /\ DayIds(today - 1) # {}) =>
          AggregateFields(dailyReports'[today - 1]) =
            AggregateFields(BackfillRecord(today - 1, today - 1, today - 1))
     /\ (BackfillRan /\ jobResult'.forceOverwrite) =>
          \A d \in DatesWithEntries(jobResult'.startDate,
                                    jobResult'.endDate) :
            AggregateFields(dailyReports'[d]) =
              AggregateFields(RollupRecord(d))]_vars

\* a forced backfillHistory has written the record of a day of two entries,
\* one of them a sale
C34_Witness ==
  /\ jobResult.job = "backfillHistory"
  /\ jobResult.forceOverwrite
  /\ \E d \in DOMAIN dailyReports :
       /\ dailyReports[d][<<"generatedBy">>] = "backfillHistory"
       /\ dailyReports[d][<<"totalTransactions">>] = 2
       /\ dailyReports[d][<<"salesCount">>] >= 1
       /\ jobResult.startDate <= d
       /\ d <= jobResult.endDate

\* the step is a complete run of backfillHistory without forceOverwrite that
\* follows an abandoned run over the same range, the ledger as it was
ResumesAbandoned ==
  /\ BackfillRan
  /\ ~jobResult'.forceOverwrite
  /\ jobResult.job = "backfillHistoryAbandoned"
  /\ jobResult'.startDate = jobResult.startDate
  /\ jobResult'.endDate = jobResult.endDate
  /\ jobResult.ledgerVersion = nextSeq

\* the run creates the dates the abandoned run had not committed, and the
\* daily aggregates end as the abandoned run would have left them
ResumedAsUninterrupted ==
  /\ BatchDates(jobResult'.batches) = jobResult.pendingDates
  /\ DOMAIN dailyReports' = DOMAIN jobResult.complete
  /\ \A d \in DOMAIN dailyReports' :
       WithoutGeneratedAt(dailyReports'[d]) =
         WithoutGeneratedAt(jobResult.complete[d])

\* C35 (as stated): after a backfillHistory run abandoned between two
\* batches of Phase 2, a run without forceOverwrite over the same range and
\* ledger creates exactly the dates not yet committed and ends with the
\* daily aggregates of one uninterrupted run
C35_Resumable ==
  [][ResumesAbandoned => ResumedAsUninterrupted]_vars

\* C35 (amended): the same, for an abandoned run that was itself without
\* forceOverwrite
C35_ResumableUnforced ==
  [][(ResumesAbandoned /\ ~jobResult.forceOverwrite) =>
       ResumedAsUninterrupted]_vars

\* a run without forceOverwrite has skipped the date an abandoned run had
\* committed and created the date it had not
C35_Witness ==
  /\ jobResult.job = "backfillHistory"
  /\ ~jobResult.forceOverwrite
  /\ jobResult.daysCreated = 1
  /\ jobResult.daysSkipped = 1
  /\ jobResult.runs = 1
  /\ \A d \in DOMAIN dailyReports :
       dailyReports[d][<<"generatedBy">>] = "backfillHistory"
  /\ Cardinality(DOMAIN dailyReports) = 2

\* the names of the seven monthly counters of live_summary
MonthlyCounterNames == {c[1] : c \in MonthlyCounters}

\* C36: resetDailyStats sets the three 'today' counters of live_summary to
\* zero and leaves the monthly counters, the stock document and every daily
\* aggregate as they were; resetMonthlyStats sets the seven monthly counters
\* to zero and leaves the 'today' counters, the stock document and every
\* daily aggregate as they were
C36_ResetFrames ==
  [][/\ resetDailyStats =>
          /\ \A k \in TodayCounters : liveSummary'[k] = 0
          /\ \A k \in MonthlyCounterNames :
               /\ k \in DOMAIN liveSummary' <=> k \in DOMAIN liveSummary
               /\ Field(liveSummary', k) = Field(liveSummary, k)
          /\ inventory' = inventory
          /\ dailyReports' = dailyReports
     /\ resetMonthlyStats =>
          /\ \A k \in MonthlyCounterNames : liveSummary'[k] = 0
          /\ \A k \in TodayCounters :
               /\ k \in DOMAIN liveSummary' <=> k \in DOMAIN liveSummary
               /\ Field(liveSummary', k) = Field(liveSummary, k)
          /\ inventory' = inventory
          /\ dailyReports' = dailyReports]_vars

\* the daily and the monthly reset have run after a purchase was counted:
\* every counter is zero while the stock document and a daily aggregate
\* hold the purchase
C36_Witness ==
  /\ "lastDailyReset" \in DOMAIN liveSummary
  /\ "lastMonthlyReset" \in DOMAIN liveSummary
  /\ \A k \in TodayCounters \cup MonthlyCounterNames : Field(liveSummary, k) = 0
  /\ "comprasCountMes" \in DOMAIN liveSummary
  /\ inventory # EmptyObject
  /\ \E d \in DOMAIN dailyReports :
       dailyReports[d][<<"totalTransactions">>] >= 1

\* the stock and the counters as the handling of the first entry alone
\* leaves them: their values before the second entry is created
BeforeCreate ==
  /\ \A m \in Materials :
       Field(inventory, m) = Field(invUpdate(NoDoc, transactions[1]), m)
  /\ \A k \in Counters :
       Field(liveSummary, k) = Field(statsUpdate(NoDoc, transactions[1]), k)

\* C37 (round trip): once the create event and then the delete event of an
\* entry are handled, with no reset in between, the stock and every counter
\* of live_summary are back to their values of before the create
C37_RoundTrip ==
  (Quiescent /\ nextSeq = 3) => BeforeCreate

\* a sale has been created and deleted after a purchase of day 1, every
\* event handled and the calendar on its last day
C37_Witness ==
  /\ Quiescent
  /\ nextSeq = 3
  /\ today = MaxDay
  /\ transactions[1].tipo = "compra"
  /\ transactions[1].data = 1
  /\ Field(liveSummary, "comprasCountMes") = 1
  /\ "vendasCountMes" \in DOMAIN liveSummary
  /\ Field(liveSummary, "vendasCountMes") = 0
=============================================================================
